---- MODULE Spec2Model ----
(***************************************************************************)
(* Model of the basemap tile engine of BlenderGIS (basemaps/mapviewer.py): *)
(* the tile matrix arithmetic (TileMatrix), the GeoPackage tile cache, the *)
(* map service (MapService) and the threaded mosaic builder (MapImage).    *)
(*                                                                         *)
(* Coordinates, resolutions and pixel sizes are integers: the grids below  *)
(* are chosen so that every division the code performs on them is exact,   *)
(* except where the code itself takes a floor or a ceiling.                *)
(***************************************************************************)
EXTENDS Integers, Sequences, FiniteSets, TLC

VARIABLES
    db,     \* the cache file at dbPath (sqlite container)
    now,    \* wall clock, in ticks (TicksPerDay ticks a day)
    gp,     \* the GeoPackage object of the cache specification: "none" | "open"
    ret,    \* result of the last call: of the cache, or of progress()
    opn,    \* number of GeoPackage calls made in the cache specification
    pin,    \* input the pure function is applied to
    pout,   \* its output
    scn,    \* scene properties the viewer reads: zoom z and origin (x, y)
    map,    \* the attributes of the MapImage object
    cyc,    \* the threads running run_multi, by start order
    wk,     \* the threads running load, by run_multi thread and part
    host,   \* the modal operator (main thread)
    saved   \* the mosaic file at imgPath, as last saved and placed

cacheVars == <<db, now, gp, ret, opn>>
pureVars == <<pin, pout>>
engineVars == <<scn, map, cyc, wk, host, saved>>
vars == <<cacheVars, pureVars, engineVars>>

-----------------------------------------------------------------------------
(* Bounds of the model *)

TicksPerDay == 2
MaxOps == 5
MaxCol == 3
\* viewport corners lie in -MaxSpan..MaxSpan
MaxSpan == 5
\* tile numbers and zoom levels handed to getQuadKey
MaxKey == 7
MaxKeyZoom == 3
\* longest tile list handed to the slicing of run_multi
MaxTiles == 13
\* highest zoom level asked of getRes
MaxResZoom == 4
\* get() calls of a session started by MAP_VIEW.invoke (Spec)
MaxGets == 2
\* clicks on a map that is shown (SpecClick)
MaxClicks == 3

-----------------------------------------------------------------------------
(* Generic helpers *)

RECURSIVE Pow(_, _)
Pow(b, e) == IF e = 0 THEN 1 ELSE b * Pow(b, e - 1)

\* math.floor(a / b) and math.ceil(a / b) for b > 0
FloorDiv(a, b) == a \div b
CeilDiv(a, b) == -((-a) \div b)

Abs(a) == IF a < 0 THEN -a ELSE a

-----------------------------------------------------------------------------
(* Grid definitions (servicesDefs.grids entries), with integer extents *)

GridNW ==
    [CRS |-> 4326, bboxCRS |-> 4326, bbox |-> <<-4, -4, 4, 4>>, tileSize |-> 2,
     originLoc |-> "NW", initRes |-> 4, resFactor |-> 2, nbLevels |-> 3,
     hasRes |-> FALSE, resolutions |-> <<>>]

GridSW == [GridNW EXCEPT !.originLoc = "SW"]

Grids == {GridNW, GridSW}

\* a grid in a projected CRS, for the requests that name the CRS
GridWM == [GridNW EXCEPT !.CRS = 3857]

\* a grid with an explicit resolution list
GridRes == [GridNW EXCEPT !.hasRes = TRUE, !.resolutions = <<4, 2, 1>>]

-----------------------------------------------------------------------------
(* TileMatrix *)

\* a mis-written TileMatrix.__init__ : any origin that is not NW is taken as SW
TileMatrix_lenient(g) ==
    LET xmin == g.bbox[1]
        ymin == g.bbox[2]
        xmax == g.bbox[3]
        ymax == g.bbox[4]
        nb == IF g.hasRes THEN Len(g.resolutions) ELSE g.nbLevels
    IN  [CRS |-> g.CRS, tileSize |-> g.tileSize, originLoc |-> g.originLoc,
         initRes |-> g.initRes, resFactor |-> g.resFactor, nbLevels |-> nb,
         hasRes |-> g.hasRes, resolutions |-> g.resolutions,
         xmin |-> xmin, ymin |-> ymin, xmax |-> xmax, ymax |-> ymax,
         originx |-> xmin,
         originy |-> IF g.originLoc = "NW" THEN ymax ELSE ymin,
         ok |-> TRUE]

\* TileMatrix.__init__ : bbox, origin; ok = FALSE stands for NotImplementedError
TileMatrix(g) ==
    LET xmin == g.bbox[1]
        ymin == g.bbox[2]
        xmax == g.bbox[3]
        ymax == g.bbox[4]
        nb == IF g.hasRes THEN Len(g.resolutions) ELSE g.nbLevels
    IN  [CRS |-> g.CRS, tileSize |-> g.tileSize, originLoc |-> g.originLoc,
         initRes |-> g.initRes, resFactor |-> g.resFactor, nbLevels |-> nb,
         hasRes |-> g.hasRes, resolutions |-> g.resolutions,
         xmin |-> xmin, ymin |-> ymin, xmax |-> xmax, ymax |-> ymax,
         originx |-> xmin,
         originy |-> IF g.originLoc = "NW" THEN ymax ELSE ymin,
         ok |-> g.originLoc \in {"NW", "SW"}]

\* TileMatrix.getRes with a resolution list: the index after the test
\* "if zoom > len(self.resolutions)", counted from 0 as in the source
resIndex(tm, zoom) ==
    IF zoom > Len(tm.resolutions) THEN Len(tm.resolutions) ELSE zoom

\* self.resolutions[index] raises IndexError (index >= 0)
IndexError(tm, index) == index + 1 \notin DOMAIN tm.resolutions

\* TileMatrix.getRes: the entry of the resolution list, defined where the
\* index is in range, or the resolution of a computed pyramid (exact for
\* zoom < nbLevels)
getRes(tm, zoom) ==
    IF tm.hasRes THEN tm.resolutions[resIndex(tm, zoom) + 1]
    ELSE tm.initRes \div Pow(tm.resFactor, zoom)

\* TileMatrix.getResList
getResList(tm) ==
    IF tm.hasRes THEN tm.resolutions
    ELSE [i \in 1..tm.nbLevels |-> tm.initRes \div Pow(tm.resFactor, i - 1)]

\* a mis-written getTileNumber: rows counted upwards from the origin whatever
\* the origin is
getTileNumber_up(tm, x, y, zoom) ==
    LET geoTileSize == tm.tileSize * getRes(tm, zoom)
        dx == x - tm.originx
        dy == y - tm.originy
    IN  <<FloorDiv(dx, geoTileSize), FloorDiv(dy, geoTileSize)>>

\* TileMatrix.getTileNumber
getTileNumber(tm, x, y, zoom) ==
    LET geoTileSize == tm.tileSize * getRes(tm, zoom)
        dx == x - tm.originx
        dy == IF tm.originLoc = "NW" THEN tm.originy - y ELSE y - tm.originy
    IN  <<FloorDiv(dx, geoTileSize), FloorDiv(dy, geoTileSize)>>

\* TileMatrix.getTileCoords
getTileCoords(tm, col, row, zoom) ==
    LET geoTileSize == tm.tileSize * getRes(tm, zoom)
        x == tm.originx + (col * geoTileSize)
        y == IF tm.originLoc = "NW"
             THEN tm.originy - (row * geoTileSize)
             ELSE (tm.originy + (row * geoTileSize)) + geoTileSize
    IN  <<x, y>>

-----------------------------------------------------------------------------
(* GeoPackage: the container file *)

MAX_DAYS == 90
GP10 == 1196437808

\* the tables in the order GeoPackage.create creates them
TableOrder ==
    <<"gpkg_contents", "gpkg_spatial_ref_sys", "gpkg_tile_matrix_set",
      "gpkg_tile_matrix", "gpkg_tiles">>
TableNames == {TableOrder[i] : i \in 1..Len(TableOrder)}

\* tile payloads: two images, an image header followed by garbage, a web page
Blobs == {"pngA", "pngB", "pngBroken", "html"}

\* imghdr.what(None, data): recognises the header only
imghdr_what(data) == IF data \in {"pngA", "pngB", "pngBroken"} THEN "png" ELSE "None"

\* PIL Image.open succeeds
Decodes(data) == data \in {"pngA", "pngB"}

NoFile ==
    [kind |-> "absent", app_id |-> 0, tables |-> {}, contents |-> {}, srs |-> {},
     tms |-> {}, tm |-> {}, tiles |-> {}, seq |-> 0]

\* GeoPackage.isGPKG : "True" | "False" | "DatabaseError"
isGPKG(f) ==
    IF f.kind = "absent" THEN "False"
    ELSE IF f.kind = "notdb" THEN "DatabaseError"
    ELSE IF f.app_id # GP10 THEN "False"
    ELSE IF TableNames \subseteq f.tables THEN "True" ELSE "False"

\* GeoPackage.create : the CREATE TABLE statements run in order and the first
\* one whose table exists raises; what ran before it stays in the file
RECURSIVE createFrom(_, _)
createFrom(f, i) ==
    IF i > Len(TableOrder) THEN [db |-> f, err |-> "none"]
    ELSE IF TableOrder[i] \in f.tables THEN [db |-> f, err |-> "OperationalError"]
    ELSE createFrom([f EXCEPT !.tables = @ \cup {TableOrder[i]}], i + 1)

create(f) ==
    IF f.kind = "notdb" THEN [db |-> f, err |-> "DatabaseError"]
    ELSE createFrom([f EXCEPT !.kind = "db", !.app_id = GP10], 1)

\* GeoPackage.insertMetadata
insertMetadata(f, tm) ==
    IF \E r \in f.contents : r.table_name = "gpkg_tiles"
    THEN [db |-> f, err |-> "IntegrityError"]
    ELSE [db |-> [f EXCEPT !.contents = @ \cup
                    {[table_name |-> "gpkg_tiles", data_type |-> "tiles",
                      min_x |-> tm.xmin, min_y |-> tm.ymin,
                      max_x |-> tm.xmax, max_y |-> tm.ymax, srs_id |-> tm.CRS]}],
          err |-> "none"]

\* GeoPackage.insertCRS
insertCRS(f, code) ==
    IF \E r \in f.srs : r.srs_id = code
    THEN [db |-> f, err |-> "IntegrityError"]
    ELSE [db |-> [f EXCEPT !.srs = @ \cup
                    {[srs_id |-> code, organization |-> "EPSG",
                      organization_coordsys_id |-> code]}],
          err |-> "none"]

\* a mis-written insertTileMatrixSet: the levels are numbered from 1
insertTileMatrixSet_from1(f, tm) ==
    LET res == getResList(tm)
        rows == {[table_name |-> "gpkg_tiles", zoom_level |-> i,
                  matrix_width |-> CeilDiv(tm.xmax - tm.xmin, tm.tileSize * res[i]),
                  matrix_height |-> CeilDiv(tm.ymax - tm.ymin, tm.tileSize * res[i]),
                  tile_width |-> tm.tileSize, tile_height |-> tm.tileSize,
                  pixel_x_size |-> res[i], pixel_y_size |-> res[i]] : i \in 1..Len(res)}
        levels == {r.zoom_level : r \in rows}
    IN  [f EXCEPT
            !.tms = {r \in @ : r.table_name # "gpkg_tiles"} \cup
                    {[table_name |-> "gpkg_tiles", srs_id |-> tm.CRS,
                      min_x |-> tm.xmin, min_y |-> tm.ymin,
                      max_x |-> tm.xmax, max_y |-> tm.ymax]},
            !.tm = {r \in @ : r.zoom_level \notin levels} \cup rows]

\* GeoPackage.insertTileMatrixSet : INSERT OR REPLACE of the set and of one
\* tile matrix per level
insertTileMatrixSet(f, tm) ==
    LET res == getResList(tm)
        rows == {[table_name |-> "gpkg_tiles", zoom_level |-> i - 1,
                  matrix_width |-> CeilDiv(tm.xmax - tm.xmin, tm.tileSize * res[i]),
                  matrix_height |-> CeilDiv(tm.ymax - tm.ymin, tm.tileSize * res[i]),
                  tile_width |-> tm.tileSize, tile_height |-> tm.tileSize,
                  pixel_x_size |-> res[i], pixel_y_size |-> res[i]] : i \in 1..Len(res)}
        levels == {r.zoom_level : r \in rows}
    IN  [f EXCEPT
            !.tms = {r \in @ : r.table_name # "gpkg_tiles"} \cup
                    {[table_name |-> "gpkg_tiles", srs_id |-> tm.CRS,
                      min_x |-> tm.xmin, min_y |-> tm.ymin,
                      max_x |-> tm.xmax, max_y |-> tm.ymax]},
            !.tm = {r \in @ : r.zoom_level \notin levels} \cup rows]

\* GeoPackage.__init__ after isGPKG returned False: create and the inserts
initContainer(f, tm) ==
    LET c == create(f) IN
    IF c.err # "none" THEN c
    ELSE LET m == insertMetadata(c.db, tm) IN
         IF m.err # "none" THEN m
         ELSE LET s == insertCRS(m.db, tm.CRS) IN
              IF s.err # "none" THEN s
              ELSE [db |-> insertTileMatrixSet(s.db, tm), err |-> "none"]

\* a mis-written GeoPackage.__init__ : the container is initialised whether
\* isGPKG finds it valid or not
GeoPackage_always(f, tm) ==
    LET chk == isGPKG(f) IN
    IF chk = "DatabaseError" THEN [db |-> f, err |-> "DatabaseError"]
    ELSE initContainer(f, tm)

\* GeoPackage.__init__ : err = "none" when the constructor returns
GeoPackage(f, tm) ==
    LET chk == isGPKG(f) IN
    IF chk = "DatabaseError" THEN [db |-> f, err |-> "DatabaseError"]
    ELSE IF chk = "True" THEN [db |-> f, err |-> "none"]
    ELSE initContainer(f, tm)

\* the rows of gpkg_tiles with key (z, x, y)
TileRows(f, x, y, z) ==
    {r \in f.tiles : r.zoom_level = z /\ r.tile_column = x /\ r.tile_row = y}

\* a mis-written putTile: a plain INSERT that keeps the conflicting row
putTile_keep(f, x, y, z, data, t) ==
    [f EXCEPT
        !.tiles = @ \cup
            {[id |-> f.seq + 1, zoom_level |-> z, tile_column |-> x, tile_row |-> y,
              tile_data |-> data, last_modified |-> t]},
        !.seq = @ + 1]

\* GeoPackage.putTile : INSERT OR REPLACE under UNIQUE (zoom_level, tile_column,
\* tile_row); id is AUTOINCREMENT and last_modified defaults to the current time
putTile(f, x, y, z, data, t) ==
    [f EXCEPT
        !.tiles = (@ \ TileRows(f, x, y, z)) \cup
            {[id |-> f.seq + 1, zoom_level |-> z, tile_column |-> x, tile_row |-> y,
              tile_data |-> data, last_modified |-> t]},
        !.seq = @ + 1]

\* timedelta.days of a difference of t ticks
Days(t) == FloorDiv(t, TicksPerDay)

\* a mis-written getTile: drops the stale row it refuses to return
getTile_purge(f, x, y, z, t) ==
    LET rows == TileRows(f, x, y, z) IN
    IF rows = {} THEN [db |-> f, data |-> "None"]
    ELSE LET r == CHOOSE r \in rows : TRUE IN
         IF Days(t - r.last_modified) > MAX_DAYS
         THEN [db |-> [f EXCEPT !.tiles = @ \ rows], data |-> "None"]
         ELSE [db |-> f, data |-> r.tile_data]

\* a mis-written getTile: compares the age in ticks, not in whole days
getTile_exact(f, x, y, z, t) ==
    LET rows == TileRows(f, x, y, z) IN
    IF rows = {} THEN [db |-> f, data |-> "None"]
    ELSE LET r == CHOOSE r \in rows : TRUE IN
         IF (t - r.last_modified) > MAX_DAYS * TicksPerDay
         THEN [db |-> f, data |-> "None"]
         ELSE [db |-> f, data |-> r.tile_data]

\* GeoPackage.getTile : the file after the call and the value returned
getTile(f, x, y, z, t) ==
    LET rows == TileRows(f, x, y, z) IN
    IF rows = {} THEN [db |-> f, data |-> "None"]
    ELSE LET r == CHOOSE r \in rows : TRUE IN
         IF Days(t - r.last_modified) > MAX_DAYS
         THEN [db |-> f, data |-> "None"]
         ELSE [db |-> f, data |-> r.tile_data]

-----------------------------------------------------------------------------
(* MapService and MapImage: configuration and object state *)

nbThread == 4

\* the grid of the source, its layer (servicesDefs.sources) and the 3D region
EngineTM == TileMatrix(GridNW)
Layer == [zmin |-> 0, zmax |-> 1]
Area3d == [width |-> 4, height |-> 2]

\* scene origins the user can drag the map to
ViewXs == {0, 8}

Threads == 1..(MaxGets + MaxClicks)
Parts == 1..nbThread

\* a mis-written listTiles: the tile counts without the extra tile per axis
listTiles_exact(tm, bbox, zoom) ==
    LET xmin == bbox[1]
        ymin == bbox[2]
        xmax == bbox[3]
        ymax == bbox[4]
        first == getTileNumber(tm, xmin, ymax, zoom)
        nbTilesX == CeilDiv(xmax - xmin, tm.tileSize * getRes(tm, zoom))
        nbTilesY == CeilDiv(ymax - ymin, tm.tileSize * getRes(tm, zoom))
    IN  [cols |-> [i \in 1..nbTilesX |-> first[1] + (i - 1)],
         rows |-> IF tm.originLoc = "NW"
                  THEN [i \in 1..nbTilesY |-> first[2] + (i - 1)]
                  ELSE [i \in 1..nbTilesY |-> first[2] - (i - 1)]]

\* MapService.listTiles
listTiles(tm, bbox, zoom) ==
    LET xmin == bbox[1]
        ymin == bbox[2]
        xmax == bbox[3]
        ymax == bbox[4]
        first == getTileNumber(tm, xmin, ymax, zoom)
        nbTilesX == CeilDiv(xmax - xmin, tm.tileSize * getRes(tm, zoom)) + 1
        nbTilesY == CeilDiv(ymax - ymin, tm.tileSize * getRes(tm, zoom)) + 1
    IN  [cols |-> [i \in 1..nbTilesX |-> first[1] + (i - 1)],
         rows |-> IF tm.originLoc = "NW"
                  THEN [i \in 1..nbTilesY |-> first[2] + (i - 1)]
                  ELSE [i \in 1..nbTilesY |-> first[2] - (i - 1)]]

\* MapImage.__init__ : the attributes it sets; cols, rows, col1, row1, img_w,
\* img_h, mosaic, nbTiles and cptTiles are not set there (has* = FALSE);
\* thread 0 and previousCols <<>> stand for None
NewMapImage ==
    [running |-> FALSE, thread |-> 0, zoom |-> 0, origin_x |-> 0, origin_y |-> 0,
     cols |-> <<>>, rows |-> <<>>, col1 |-> 0, row1 |-> 0, img_w |-> 0, img_h |-> 0,
     previousCols |-> <<>>, previousRows |-> <<>>,
     mosaic |-> [w |-> 0, h |-> 0, px |-> {}],
     hasCpt |-> FALSE, nbTiles |-> 0, cptTiles |-> 0,
     caches |-> FALSE]

NoCycle == [pc |-> "idle", tiles |-> <<>>, sup |-> FALSE, stp |-> FALSE,
            can |-> FALSE, io |-> {}, res |-> "none"]
NoWorker == [pc |-> "none", part |-> <<>>, i |-> 1, z |-> 0, data |-> "None",
             put |-> FALSE, img |-> "none", tmp |-> 0]
NoSave == [by |-> 0, w |-> 0, h |-> 0, px |-> {}, cols |-> <<>>, rows |-> <<>>,
           zoom |-> 0]

\* no viewer: the state of the engine in the specifications that do not run it
EngineNotBuilt ==
    /\ scn = [z |-> 0, x |-> 0, y |-> 0]
    /\ map = NewMapImage
    /\ cyc = [t \in Threads |-> NoCycle]
    /\ wk = [t \in Threads |-> [w \in Parts |-> NoWorker]]
    /\ host = [pc |-> "idle", n |-> 0, invoked |-> FALSE, inMove |-> FALSE, left |-> 0]
    /\ saved = NoSave

-----------------------------------------------------------------------------
(* The cache on its own: one GeoPackage object on one file, called in        *)
(* sequence while the clock advances                                          *)

CacheTM == TileMatrix(GridNW)

\* what may sit at dbPath before the constructor runs
NotDb == [NoFile EXCEPT !.kind = "notdb"]
EmptyDb == [NoFile EXCEPT !.kind = "db"]
ForeignDb == [NoFile EXCEPT !.kind = "db", !.tables = {"gpkg_contents"}]
PartialDb ==
    [NoFile EXCEPT !.kind = "db", !.app_id = GP10,
                   !.tables = TableNames \ {"gpkg_tiles"}]
FreshDb == GeoPackage(NoFile, CacheTM).db
UsedDb == putTile(FreshDb, 0, 0, 0, "pngA", 0)
InitialFiles == {NoFile, NotDb, EmptyDb, ForeignDb, PartialDb, FreshDb, UsedDb}

\* the bounds test of MapService.getTile
InBounds(tm, col, row, zoom) ==
    LET xy == getTileCoords(tm, col, row, zoom) IN
    /\ ~(row < 0 \/ col < 0)
    /\ tm.xmin <= xy[1] /\ xy[1] < tm.xmax
    /\ tm.ymin < xy[2] /\ xy[2] <= tm.ymax

\* what urlopen(...).read() may give: an exception or some bytes
Responses == {"error", "html", "pngA", "pngBroken"}

\* a mis-written MapService.getTile: the download is not put in the cache
MapService_getTile_noput(f, col, row, zoom, selfZoom, resp, t) ==
    LET inb == InBounds(CacheTM, col, row, zoom)
        look == getTile(f, col, row, zoom, t)
        hit == IF look.data # "None" /\ imghdr_what(look.data) = "None"
               THEN "None" ELSE look.data
        got == IF resp = "error" \/ imghdr_what(resp) = "None" THEN "None" ELSE resp
    IN  IF ~inb THEN [db |-> f, data |-> "None", net |-> FALSE, put |-> FALSE]
        ELSE IF hit # "None"
        THEN [db |-> look.db, data |-> hit, net |-> FALSE, put |-> FALSE]
        ELSE [db |-> look.db, data |-> got, net |-> TRUE, put |-> FALSE]

\* a mis-written MapService.getTile: the tile is downloaded whatever the
\* cache holds
MapService_getTile_always(f, col, row, zoom, selfZoom, resp, t) ==
    LET inb == InBounds(CacheTM, col, row, zoom)
        look == getTile(f, col, row, zoom, t)
        hit == IF look.data # "None" /\ imghdr_what(look.data) = "None"
               THEN "None" ELSE look.data
        got == IF resp = "error" \/ imghdr_what(resp) = "None" THEN "None" ELSE resp
    IN  IF ~inb THEN [db |-> f, data |-> "None", net |-> FALSE, put |-> FALSE]
        ELSE [db |-> IF got = "None" THEN look.db
                     ELSE putTile(look.db, col, row, selfZoom, got, t),
              data |-> got, net |-> TRUE, put |-> got # "None"]

\* a mis-written MapService.getTile: a row that could not be refreshed is
\* taken out of the cache
MapService_getTile_evict(f, col, row, zoom, selfZoom, resp, t) ==
    LET inb == InBounds(CacheTM, col, row, zoom)
        look == getTile(f, col, row, zoom, t)
        hit == IF look.data # "None" /\ imghdr_what(look.data) = "None"
               THEN "None" ELSE look.data
        got == IF resp = "error" \/ imghdr_what(resp) = "None" THEN "None" ELSE resp
    IN  IF ~inb THEN [db |-> f, data |-> "None", net |-> FALSE, put |-> FALSE]
        ELSE IF hit # "None"
        THEN [db |-> look.db, data |-> hit, net |-> FALSE, put |-> FALSE]
        ELSE [db |-> IF got = "None"
                     THEN [look.db EXCEPT !.tiles = @ \ TileRows(look.db, col, row, zoom)]
                     ELSE putTile(look.db, col, row, selfZoom, got, t),
              data |-> got, net |-> TRUE, put |-> got # "None"]

\* MapService.getTile(layKey, col, row, zoom) with the cache open, on the file
\* f at time t: selfZoom is self.zoom, resp what the network gives if it is
\* asked; the file after the call, the value returned, and whether the
\* network was asked and putTile called
MapService_getTile(f, col, row, zoom, selfZoom, resp, t) ==
    LET inb == InBounds(CacheTM, col, row, zoom)
        look == getTile(f, col, row, zoom, t)
        hit == IF look.data # "None" /\ imghdr_what(look.data) = "None"
               THEN "None" ELSE look.data
        got == IF resp = "error" \/ imghdr_what(resp) = "None" THEN "None" ELSE resp
    IN  IF ~inb THEN [db |-> f, data |-> "None", net |-> FALSE, put |-> FALSE]
        ELSE IF hit # "None"
        THEN [db |-> look.db, data |-> hit, net |-> FALSE, put |-> FALSE]
        ELSE [db |-> IF got = "None" THEN look.db
                     ELSE putTile(look.db, col, row, selfZoom, got, t),
              data |-> got, net |-> TRUE, put |-> got # "None"]

\* keys (x, y, z) and payloads used by the cache specification
CacheKeys == {<<0, 0, 0>>, <<1, 0, 1>>}
PutBlobs == {"pngA", "pngB", "html"}
\* tiles asked of MapService.getTile: the keys above and one outside the grid
ServiceKeys == CacheKeys \cup {<<2, 0, 0>>}
Jumps == {1, 89 * TicksPerDay, 90 * TicksPerDay, 91 * TicksPerDay}

NoRet == [op |-> "none", key |-> <<0, 0, 0>>, data |-> "None", err |-> "none", at |-> 0]

InitCache ==
    /\ db \in InitialFiles
    /\ now = 0
    /\ gp = "none"
    /\ ret = NoRet
    /\ opn = 0
    /\ pin = [op |-> "none"]
    /\ pout = [op |-> "none"]
    /\ EngineNotBuilt

\* GeoPackage(path, tm)
GPOpen ==
    /\ opn < MaxOps
    /\ LET r == GeoPackage(db, CacheTM) IN
        /\ db' = r.db
        /\ gp' = IF r.err = "none" THEN "open" ELSE "none"
        /\ ret' = [NoRet EXCEPT !.op = "init", !.err = r.err, !.at = now]
    /\ opn' = opn + 1
    /\ UNCHANGED <<now, pin, pout, engineVars>>

\* gp.putTile(x, y, z, data)
GPPut ==
    /\ opn < MaxOps
    /\ gp = "open"
    /\ \E k \in CacheKeys, data \in PutBlobs :
        /\ db' = putTile(db, k[1], k[2], k[3], data, now)
        /\ ret' = [NoRet EXCEPT !.op = "putTile", !.key = k, !.data = data, !.at = now]
    /\ opn' = opn + 1
    /\ UNCHANGED <<now, gp, pin, pout, engineVars>>

\* gp.getTile(x, y, z)
GPGet ==
    /\ opn < MaxOps
    /\ gp = "open"
    /\ \E k \in CacheKeys :
        LET r == getTile(db, k[1], k[2], k[3], now) IN
        /\ db' = r.db
        /\ ret' = [NoRet EXCEPT !.op = "getTile", !.key = k, !.data = r.data, !.at = now]
    /\ opn' = opn + 1
    /\ UNCHANGED <<now, gp, pin, pout, engineVars>>

\* time passes
Tick ==
    /\ opn < MaxOps
    /\ \E d \in Jumps : now' = now + d
    /\ opn' = opn + 1
    /\ UNCHANGED <<db, gp, ret, pin, pout, engineVars>>

\* MapService.getTile(layKey, col, row, zoom), called as load calls it: the
\* zoom argument is self.zoom; rows are the rows of the key before the call
MSGetTile ==
    /\ opn < MaxOps
    /\ gp = "open"
    /\ \E k \in ServiceKeys, resp \in Responses :
        LET r == MapService_getTile(db, k[1], k[2], k[3], k[3], resp, now) IN
        /\ db' = r.db
        /\ ret' = [op |-> "MapService.getTile", key |-> k, data |-> r.data,
                   err |-> "none", at |-> now, net |-> r.net, put |-> r.put,
                   rows |-> TileRows(db, k[1], k[2], k[3])]
    /\ opn' = opn + 1
    /\ UNCHANGED <<now, gp, pin, pout, engineVars>>

NextCache == GPOpen \/ GPPut \/ GPGet \/ Tick \/ MSGetTile

SpecCache == InitCache /\ [][NextCache]_vars

-----------------------------------------------------------------------------
(* MapImage: a fetch cycle (run_multi) and its workers (load) *)

Min(a, b) == IF a < b THEN a ELSE b

\* TileMatrix.geoToProj and projToGeo for a grid in CRS 4326
geoToProj(tm, long, lat) == <<long, lat>>
projToGeo(tm, x, y) == <<x, y>>

\* the thread t still runs run_multi
Alive(t) == cyc[t].pc \notin {"idle", "done"}

\* a mis-written join: run_multi waits for a thread that does not end
Joined_never(t) == \A w \in Parts : wk[t][w].pc = "none"

\* a mis-written join: run_multi goes on as soon as one worker has ended
Joined_any(t) == \E w \in Parts : wk[t][w].pc \in {"none", "done", "crashed"}

\* the workers of t have all ended (returned or died)
Joined(t) == \A w \in Parts : wk[t][w].pc \in {"none", "done", "crashed"}

\* the tile lists MapImage.request computes for scene s
requestTiles(s) ==
    LET o == geoToProj(EngineTM, s.x, s.y)
        res == getRes(EngineTM, s.z)
        w == Area3d.width
        h == Area3d.height
        xmin == o[1] - (w * res) \div 2
        ymax == o[2] + (h * res) \div 2
        xmax == o[1] + (w * res) \div 2
        ymin == o[2] - (h * res) \div 2
    IN  listTiles(EngineTM, <<xmin, ymin, xmax, ymax>>, s.z)

\* the test that ends MapImage.request
sameRequest(m, lt) == m.previousCols = lt.cols /\ m.previousRows = lt.rows

\* a mis-written MapImage.request: the final image size with the two lists
\* taken for one another
request_swapped(m, s) ==
    LET o == geoToProj(EngineTM, s.x, s.y)
        lt == requestTiles(s)
    IN  [m EXCEPT
            !.zoom = s.z, !.origin_x = o[1], !.origin_y = o[2],
            !.cols = lt.cols, !.rows = lt.rows,
            !.col1 = lt.cols[1], !.row1 = lt.rows[1],
            !.img_w = Len(lt.rows) * EngineTM.tileSize,
            !.img_h = Len(lt.cols) * EngineTM.tileSize,
            !.running = IF sameRequest(m, lt) THEN FALSE ELSE @,
            !.previousCols = IF sameRequest(m, lt) THEN @ ELSE lt.cols,
            !.previousRows = IF sameRequest(m, lt) THEN @ ELSE lt.rows]

\* MapImage.update then MapImage.request, on the attributes m with scene s
request(m, s) ==
    LET o == geoToProj(EngineTM, s.x, s.y)
        lt == requestTiles(s)
    IN  [m EXCEPT
            !.zoom = s.z, !.origin_x = o[1], !.origin_y = o[2],
            !.cols = lt.cols, !.rows = lt.rows,
            !.col1 = lt.cols[1], !.row1 = lt.rows[1],
            !.img_w = Len(lt.cols) * EngineTM.tileSize,
            !.img_h = Len(lt.rows) * EngineTM.tileSize,
            !.running = IF sameRequest(m, lt) THEN FALSE ELSE @,
            !.previousCols = IF sameRequest(m, lt) THEN @ ELSE lt.cols,
            !.previousRows = IF sameRequest(m, lt) THEN @ ELSE lt.rows]

\* [(c, r) for c in cols for r in rows]
tileList(cols, rows) ==
    [k \in 1..(Len(cols) * Len(rows)) |->
        <<cols[((k - 1) \div Len(rows)) + 1], rows[((k - 1) % Len(rows)) + 1]>>]

\* a mis-written slicing: always nbThread parts, as even as they can be
partsOf_even(tiles) ==
    LET n == Len(tiles)
    IN  [k \in 1..nbThread |->
            SubSeq(tiles, ((k - 1) * n) \div nbThread + 1, (k * n) \div nbThread)]

\* a mis-written slicing: each part runs one tile into the next part
partsOf_overlap(tiles) ==
    LET n == Len(tiles)
        q == CeilDiv(n, nbThread)
    IN  [k \in 1..CeilDiv(n, q) |-> SubSeq(tiles, (k - 1) * q + 1, Min(k * q + 1, n))]

\* parts = [tiles[i:i+q] for i in range(0, n, q)] with q = ceil(n / nbThread)
partsOf(tiles) ==
    LET n == Len(tiles)
        q == CeilDiv(n, nbThread)
    IN  [k \in 1..CeilDiv(n, q) |-> SubSeq(tiles, (k - 1) * q + 1, Min(k * q, n))]

\* Image.paste of img at (x, y): boxes outside the image are clipped away
paste(mos, x, y, img) ==
    IF x >= 0 /\ y >= 0 /\ x < mos.w /\ y < mos.h
    THEN [mos EXCEPT !.px = {e \in @ : <<e[1], e[2]>> # <<x, y>>} \cup {<<x, y, img>>}]
    ELSE mos

\* run_multi: self.update(); self.request()
CRequest(t) ==
    /\ cyc[t].pc = "request"
    /\ map' = request(map, scn)
    /\ cyc' = [cyc EXCEPT ![t].pc = "mosaic",
                          ![t].sup = sameRequest(map, requestTiles(scn))]
    /\ UNCHANGED <<scn, wk, host, saved, cacheVars, pureVars>>

\* run_multi: the tile list and the new mosaic image
CMosaic(t) ==
    /\ cyc[t].pc = "mosaic"
    /\ cyc' = [cyc EXCEPT ![t].pc = "launch", ![t].tiles = tileList(map.cols, map.rows)]
    /\ map' = [map EXCEPT !.mosaic = [w |-> map.img_w, h |-> map.img_h, px |-> {}]]
    /\ UNCHANGED <<scn, wk, host, saved, cacheVars, pureVars>>

\* run_multi: the progress counters are set and one thread per part is started
CLaunch(t) ==
    /\ cyc[t].pc = "launch"
    /\ LET parts == partsOf(cyc[t].tiles) IN
        wk' = [wk EXCEPT ![t] =
                [w \in Parts |->
                    IF w <= Len(parts)
                    THEN [NoWorker EXCEPT !.pc = "check", !.part = parts[w]]
                    ELSE NoWorker]]
    /\ map' = [map EXCEPT !.hasCpt = TRUE,
                          !.nbTiles = Len(map.cols) * Len(map.rows),
                          !.cptTiles = 0]
    /\ cyc' = [cyc EXCEPT ![t].pc = "join"]
    /\ UNCHANGED <<scn, host, saved, cacheVars, pureVars>>

\* run_multi: after the joins, the mosaic is saved and placed if still running;
\* place() lays the image out for the tile lists and the zoom of the object
CJoin(t) ==
    /\ cyc[t].pc = "join"
    /\ Joined(t)
    /\ IF map.running
       THEN /\ saved' = [by |-> t, w |-> map.mosaic.w, h |-> map.mosaic.h,
                         px |-> map.mosaic.px, cols |-> map.cols,
                         rows |-> map.rows, zoom |-> map.zoom]
            /\ cyc' = [cyc EXCEPT ![t].pc = "reset", ![t].res = "yielded"]
       ELSE /\ saved' = saved
            /\ cyc' = [cyc EXCEPT ![t].pc = "reset", ![t].res = "skipped"]
    /\ UNCHANGED <<scn, map, wk, host, cacheVars, pureVars>>

\* run_multi: self.nbTiles, self.cptTiles = 0, 0 and the thread ends: its
\* locals and worker threads are gone; the mosaic image, which nothing reads
\* before run_multi replaces it, is dropped once no run_multi thread is left
CReset(t) ==
    /\ cyc[t].pc = "reset"
    /\ map' = [map EXCEPT !.nbTiles = 0, !.cptTiles = 0,
                          !.mosaic = IF \A u \in Threads \ {t} : ~Alive(u)
                                     THEN NewMapImage.mosaic ELSE @]
    /\ cyc' = [cyc EXCEPT ![t] = [NoCycle EXCEPT !.pc = "done"]]
    /\ wk' = [wk EXCEPT ![t] = [w \in Parts |-> NoWorker]]
    /\ UNCHANGED <<scn, host, saved, cacheVars, pureVars>>

\* a mis-written bounds test: every tile goes on to the cache lookup
afterCache_all(wr, z) ==
    [wr EXCEPT !.pc = "cacheget", !.z = z, !.data = "None", !.put = FALSE]

\* the worker state once getCache has returned: getTile's bounds test
afterCache(wr, z) ==
    LET tile == wr.part[wr.i] IN
    IF InBounds(EngineTM, tile[1], tile[2], z)
    THEN [wr EXCEPT !.pc = "cacheget", !.z = z, !.data = "None", !.put = FALSE]
    ELSE [wr EXCEPT !.pc = "paste", !.z = z, !.data = "None", !.put = FALSE]

\* load: the running test, then getTile up to getCache's lookup
WCheck(t, w) ==
    /\ wk[t][w].pc = "check"
    /\ wk' = [wk EXCEPT ![t][w] =
                IF ~map.running THEN [@ EXCEPT !.pc = "done"]
                ELSE IF map.caches THEN afterCache(@, map.zoom)
                ELSE [@ EXCEPT !.pc = "isgpkg", !.z = map.zoom,
                               !.data = "None", !.put = FALSE]]
    /\ UNCHANGED <<scn, map, cyc, host, saved, cacheVars, pureVars>>

\* getCache: GeoPackage.__init__ up to isGPKG; a valid container is kept
WIsGpkg(t, w) ==
    /\ wk[t][w].pc = "isgpkg"
    /\ LET chk == isGPKG(db) IN
        /\ wk' = [wk EXCEPT ![t][w] =
                    IF chk = "True" THEN afterCache(@, @.z)
                    ELSE IF chk = "False" THEN [@ EXCEPT !.pc = "create"]
                    ELSE [@ EXCEPT !.pc = "crashed"]]
        /\ map' = IF chk = "True" THEN [map EXCEPT !.caches = TRUE] ELSE map
    /\ UNCHANGED <<scn, cyc, host, saved, cacheVars, pureVars>>

\* getCache: GeoPackage.__init__ creating the container; an error ends the thread
WCreate(t, w) ==
    /\ wk[t][w].pc = "create"
    /\ LET r == initContainer(db, EngineTM) IN
        /\ db' = r.db
        /\ wk' = [wk EXCEPT ![t][w] =
                    IF r.err = "none" THEN afterCache(@, @.z)
                    ELSE [@ EXCEPT !.pc = "crashed"]]
        /\ map' = IF r.err = "none" THEN [map EXCEPT !.caches = TRUE] ELSE map
    /\ UNCHANGED <<scn, cyc, host, saved, now, gp, ret, opn, pureVars>>

\* MapService.getTile: the cache lookup and the sniff of what it returned
WCacheGet(t, w) ==
    /\ wk[t][w].pc = "cacheget"
    /\ LET tile == wk[t][w].part[wk[t][w].i]
           r == getTile(db, tile[1], tile[2], wk[t][w].z, now)
           data == IF r.data # "None" /\ imghdr_what(r.data) = "None"
                   THEN "None" ELSE r.data
       IN  /\ db' = r.db
           /\ wk' = [wk EXCEPT ![t][w].data = data,
                               ![t][w].pc = IF data = "None" THEN "fetch" ELSE "paste"]
    /\ cyc' = [cyc EXCEPT ![t].io = @ \cup {"read"}]
    /\ UNCHANGED <<scn, map, host, saved, now, gp, ret, opn, pureVars>>

\* MapService.getTile: the download, the sniff and the putTile
WFetch(t, w) ==
    /\ wk[t][w].pc = "fetch"
    /\ \E resp \in Responses :
        LET tile == wk[t][w].part[wk[t][w].i]
            data == IF resp = "error" THEN "None"
                    ELSE IF imghdr_what(resp) = "None" THEN "None" ELSE resp
        IN  /\ db' = IF data = "None" THEN db
                     ELSE putTile(db, tile[1], tile[2], map.zoom, data, now)
            /\ wk' = [wk EXCEPT ![t][w].data = data, ![t][w].put = (data # "None"),
                                ![t][w].pc = "paste"]
            /\ cyc' = [cyc EXCEPT ![t].io =
                        @ \cup (IF data = "None" THEN {"net"} ELSE {"net", "put"})]
    /\ UNCHANGED <<scn, map, host, saved, now, gp, ret, opn, pureVars>>

\* load: Image.open or the white tile, pasted into self.mosaic; then the
\* read of self.cptTiles += 1 (no other statement of load lies between them)
WPaste(t, w) ==
    /\ wk[t][w].pc = "paste"
    /\ LET tile == wk[t][w].part[wk[t][w].i]
           data == wk[t][w].data
           img == IF data # "None" /\ Decodes(data) THEN data ELSE "white"
           posx == (tile[1] - map.col1) * EngineTM.tileSize
           posy == Abs(tile[2] - map.row1) * EngineTM.tileSize
       IN  /\ map' = [map EXCEPT !.mosaic = paste(@, posx, posy, img)]
           /\ wk' = [wk EXCEPT ![t][w].pc = "incwrite", ![t][w].img = img,
                               ![t][w].tmp = map.cptTiles]
    /\ UNCHANGED <<scn, cyc, host, saved, cacheVars, pureVars>>

\* load: self.cptTiles += 1, the write; then the next tile of the part
WIncWrite(t, w) ==
    /\ wk[t][w].pc = "incwrite"
    /\ map' = [map EXCEPT !.cptTiles = wk[t][w].tmp + 1]
    /\ wk' = [wk EXCEPT ![t][w].i = @ + 1, ![t][w].tmp = 0,
                        ![t][w].pc = IF wk[t][w].i + 1 > Len(wk[t][w].part)
                                     THEN "done" ELSE "check"]
    /\ UNCHANGED <<scn, cyc, host, saved, cacheVars, pureVars>>

-----------------------------------------------------------------------------
(* MapImage.get and MapImage.stop, called by the modal operator *)

\* the cycles whose workers are started and not all ended
Downloading(t) == cyc[t].pc = "join" /\ ~Joined(t)

\* stop() found running set and cleared it: the flag was cleared in the life
\* of every thread then alive (stp), and while it was downloading (can) for
\* those whose workers were running
cancelMarks ==
    [t \in Threads |-> [cyc[t] EXCEPT !.stp = @ \/ Alive(t),
                                      !.can = @ \/ Downloading(t)]]

\* get(): after stop() has returned, the flag is set and a thread started
startThread(m, c, hst) ==
    /\ map' = [m EXCEPT !.running = TRUE, !.thread = hst.n + 1]
    /\ cyc' = [c EXCEPT ![hst.n + 1] = [NoCycle EXCEPT !.pc = "request"]]
    /\ host' = [hst EXCEPT !.pc = "idle", !.n = @ + 1, !.left = @ - 1]

\* get() on scene s and attributes m: stop() clears the flag and joins the
\* thread if the flag is set, then the new thread is started
get(s, m, hst) ==
    /\ hst.left > 0
    /\ scn' = s
    /\ IF m.running /\ m.thread # 0 /\ Alive(m.thread)
       THEN /\ map' = [m EXCEPT !.running = FALSE]
            /\ cyc' = cancelMarks
            /\ host' = [hst EXCEPT !.pc = "get_join"]
       ELSE startThread(m, IF m.running THEN cancelMarks ELSE cyc, hst)
    /\ UNCHANGED <<wk, saved, cacheVars, pureVars>>

\* MAP_VIEW.invoke: the MapImage is built and get() called
HostInvoke ==
    /\ host.pc = "idle"
    /\ ~host.invoked
    /\ get(scn, map, [host EXCEPT !.invoked = TRUE])

\* MAP_VIEW.modal, wheel up: zoom in and get()
HostZoomIn ==
    /\ host.pc = "idle"
    /\ host.invoked
    /\ scn.z < Layer.zmax
    /\ get([scn EXCEPT !.z = @ + 1], map, host)

\* MAP_VIEW.modal, wheel down: zoom out and get()
HostZoomOut ==
    /\ host.pc = "idle"
    /\ host.invoked
    /\ scn.z > Layer.zmin
    /\ get([scn EXCEPT !.z = @ - 1], map, host)

\* MAP_VIEW.modal, mouse press: stop(), and the drag begins
HostStop ==
    /\ host.pc = "idle"
    /\ host.invoked
    /\ map' = [map EXCEPT !.running = FALSE]
    /\ cyc' = IF map.running THEN cancelMarks ELSE cyc
    /\ host' = [host EXCEPT !.inMove = TRUE,
                            !.pc = IF map.running /\ map.thread # 0 /\ Alive(map.thread)
                                   THEN "stop_join" ELSE "idle"]
    /\ UNCHANGED <<scn, wk, saved, cacheVars, pureVars>>

\* MAP_VIEW.modal, mouse release: moveOrigin(dx, dy) and get()
release(nx) ==
    LET g == projToGeo(EngineTM, nx, map.origin_y) IN
    get([scn EXCEPT !.x = g[1], !.y = g[2]],
        [map EXCEPT !.origin_x = nx],
        [host EXCEPT !.inMove = FALSE])

HostRelease ==
    /\ host.pc = "idle"
    /\ host.inMove
    /\ \E nx \in ViewXs : release(nx)

\* thread.join() returns in stop() or in get()
HostJoined ==
    /\ host.pc \in {"get_join", "stop_join"}
    /\ ~Alive(map.thread)
    /\ IF host.pc = "get_join"
       THEN /\ startThread(map, cyc, host)
       ELSE /\ host' = [host EXCEPT !.pc = "idle"]
            /\ UNCHANGED <<map, cyc>>
    /\ UNCHANGED <<scn, wk, saved, cacheVars, pureVars>>

\* the scene the viewer is opened on; its zoom is kept from session to session
Scene0 == [z |-> 0, x |-> 0, y |-> 8]

\* the viewer has just been built (MAP_VIEW.invoke is about to call get) on a
\* cache folder that is empty or holds a container of an earlier session
Init ==
    /\ scn \in {[Scene0 EXCEPT !.z = z] : z \in Layer.zmin..Layer.zmax}
    /\ map = NewMapImage
    /\ cyc = [t \in Threads |-> NoCycle]
    /\ wk = [t \in Threads |-> [w \in Parts |-> NoWorker]]
    /\ host = [pc |-> "idle", n |-> 0, invoked |-> FALSE, inMove |-> FALSE,
               left |-> MaxGets]
    /\ saved = NoSave
    /\ db \in {NoFile, UsedDb}
    /\ now = 0
    /\ gp = "none"
    /\ ret = NoRet
    /\ opn = 0
    /\ pin = [op |-> "none"]
    /\ pout = [op |-> "none"]

Next ==
    \/ HostInvoke \/ HostZoomIn \/ HostZoomOut \/ HostStop \/ HostRelease \/ HostJoined
    \/ \E t \in Threads :
        \/ CRequest(t) \/ CMosaic(t) \/ CLaunch(t) \/ CJoin(t) \/ CReset(t)
        \/ \E w \in Parts :
            \/ WCheck(t, w) \/ WIsGpkg(t, w) \/ WCreate(t, w) \/ WCacheGet(t, w)
            \/ WFetch(t, w) \/ WPaste(t, w) \/ WIncWrite(t, w)

Spec == Init /\ [][Next]_vars

-----------------------------------------------------------------------------
(* The viewer under clicks: the user presses and releases the mouse button
   without moving it, so that every get() after the first is asked for the
   view that is already shown *)

\* MAP_VIEW.modal, mouse release where the button was pressed: dx = dy = 0
HostClick ==
    /\ host.pc = "idle"
    /\ host.inMove
    /\ release(map.origin_x)

\* load: one iteration for tile, on st = [db, map, io], the running test
\* passed and the cache open; resp is what the network gives if it is asked
loadTile(st, tile, resp) ==
    LET z == st.map.zoom
        inb == InBounds(EngineTM, tile[1], tile[2], z)
        look == IF inb THEN getTile(st.db, tile[1], tile[2], z, now)
                ELSE [db |-> st.db, data |-> "None"]
        hit == IF look.data # "None" /\ imghdr_what(look.data) = "None"
               THEN "None" ELSE look.data
        net == inb /\ hit = "None"
        got == IF resp = "error" \/ imghdr_what(resp) = "None" THEN "None" ELSE resp
        data == IF net THEN got ELSE hit
        put == net /\ got # "None"
        img == IF data # "None" /\ Decodes(data) THEN data ELSE "white"
        posx == (tile[1] - st.map.col1) * EngineTM.tileSize
        posy == Abs(tile[2] - st.map.row1) * EngineTM.tileSize
    IN  [db |-> IF put THEN putTile(look.db, tile[1], tile[2], z, got, now) ELSE look.db,
         map |-> [st.map EXCEPT !.mosaic = paste(@, posx, posy, img),
                                !.cptTiles = @ + 1],
         io |-> st.io \cup (IF inb THEN {"read"} ELSE {})
                      \cup (IF net THEN {"net"} ELSE {})
                      \cup (IF put THEN {"put"} ELSE {})]

\* load: the iterations for part[i], part[i + 1], ... in turn
RECURSIVE loadFrom(_, _, _, _)
loadFrom(st, part, i, resp) ==
    IF i > Len(part) THEN st
    ELSE loadFrom(loadTile(st, part[i], resp), part, i + 1, resp)

\* load(part), the whole call, for the schedules where a worker thread runs
\* its load call without another thread being scheduled in between: it returns
\* at once if the flag is clear, ends with the error of getCache if the
\* container cannot be opened, and else loads every tile of the part
WLoad(t, w) ==
    /\ wk[t][w].pc = "check"
    /\ \E resp \in Responses :
        LET opened == IF map.caches THEN [db |-> db, err |-> "none"]
                      ELSE GeoPackage(db, EngineTM)
            st == loadFrom([db |-> opened.db, map |-> [map EXCEPT !.caches = TRUE],
                            io |-> cyc[t].io],
                           wk[t][w].part, 1, resp)
        IN  IF ~map.running
            THEN /\ wk' = [wk EXCEPT ![t][w].pc = "done"]
                 /\ UNCHANGED <<db, map, cyc>>
            ELSE IF opened.err # "none"
            THEN /\ wk' = [wk EXCEPT ![t][w].pc = "crashed"]
                 /\ db' = opened.db
                 /\ UNCHANGED <<map, cyc>>
            ELSE /\ db' = st.db
                 /\ map' = st.map
                 /\ cyc' = [cyc EXCEPT ![t].io = st.io]
                 /\ wk' = [wk EXCEPT ![t][w].pc = "done",
                                     ![t][w].i = Len(wk[t][w].part) + 1]
    /\ UNCHANGED <<scn, host, saved, now, gp, ret, opn, pureVars>>

\* the attributes after a first cycle on Scene0 has run to its end
ShownMapImage ==
    [request([NewMapImage EXCEPT !.running = TRUE], Scene0)
        EXCEPT !.hasCpt = TRUE, !.caches = TRUE]

\* the mosaic of that cycle: tile (0, 0) from the cache, white elsewhere
ShownSave ==
    [by |-> 0, w |-> ShownMapImage.img_w, h |-> ShownMapImage.img_h,
     px |-> {<<(c - 1) * EngineTM.tileSize, (r - 1) * EngineTM.tileSize,
               IF ShownMapImage.cols[c] = 0 /\ ShownMapImage.rows[r] = 0
               THEN "pngA" ELSE "white">> :
             c \in 1..Len(ShownMapImage.cols), r \in 1..Len(ShownMapImage.rows)},
     cols |-> ShownMapImage.cols, rows |-> ShownMapImage.rows,
     zoom |-> ShownMapImage.zoom]

\* the viewer shows the map of Scene0: its first cycle has ended (thread 0
\* stands for that ended thread) and the user is about to click
InitClick ==
    /\ scn = Scene0
    /\ map = ShownMapImage
    /\ cyc = [t \in Threads |-> NoCycle]
    /\ wk = [t \in Threads |-> [w \in Parts |-> NoWorker]]
    /\ host = [pc |-> "idle", n |-> 0, invoked |-> TRUE, inMove |-> FALSE,
               left |-> MaxClicks]
    /\ saved = ShownSave
    /\ db = UsedDb
    /\ now = 0
    /\ gp = "none"
    /\ ret = NoRet
    /\ opn = 0
    /\ pin = [op |-> "none"]
    /\ pout = [op |-> "none"]

NextClick ==
    \/ HostStop \/ HostClick \/ HostJoined
    \/ \E t \in Threads :
        \/ CRequest(t) \/ CMosaic(t) \/ CLaunch(t) \/ CJoin(t) \/ CReset(t)
        \/ \E w \in Parts : WLoad(t, w)

SpecClick == InitClick /\ [][NextClick]_vars

-----------------------------------------------------------------------------
(* The viewer under a click followed by the wheel: the shown map is asked for
   again and then zoomed in. A worker thread is switched out only where it
   waits for the network *)

\* calls of get() in this specification
MaxWheelGets == 2

\* the state of the worker wr after the iteration for part[i]
nextTile(wr) ==
    [wr EXCEPT !.i = @ + 1, !.data = "None", !.put = FALSE,
               !.pc = IF wr.i + 1 > Len(wr.part) THEN "done" ELSE "check"]

\* load from part[i] on, on st = [db, map, io]: the iterations that need no
\* answer of the network run to their end; at the first tile that is in the
\* grid and not usable from the cache, getTile has made its lookup and waits
RECURSIVE loadToMiss(_, _, _)
loadToMiss(st, part, i) ==
    IF i > Len(part) THEN [st |-> st, i |-> i, wait |-> FALSE]
    ELSE LET tile == part[i]
             z == st.map.zoom
             look == getTile(st.db, tile[1], tile[2], z, now)
             miss == look.data = "None" \/ imghdr_what(look.data) = "None"
         IN  IF InBounds(EngineTM, tile[1], tile[2], z) /\ miss
             THEN [st |-> [st EXCEPT !.db = look.db, !.io = @ \cup {"read"}],
                   i |-> i, wait |-> TRUE]
             ELSE loadToMiss(loadTile(st, tile, "error"), part, i + 1)

\* load: the running test, getCache, and the iterations up to the first wait
\* for the network or the end of the part
WBegin(t, w) ==
    /\ wk[t][w].pc = "check"
    /\ LET opened == IF map.caches THEN [db |-> db, err |-> "none"]
                     ELSE GeoPackage(db, EngineTM)
           r == loadToMiss([db |-> opened.db, map |-> [map EXCEPT !.caches = TRUE],
                            io |-> cyc[t].io], wk[t][w].part, wk[t][w].i)
       IN  IF ~map.running
           THEN /\ wk' = [wk EXCEPT ![t][w].pc = "done"]
                /\ UNCHANGED <<db, map, cyc>>
           ELSE IF opened.err # "none"
           THEN /\ wk' = [wk EXCEPT ![t][w].pc = "crashed"]
                /\ db' = opened.db
                /\ UNCHANGED <<map, cyc>>
           ELSE /\ wk' = [wk EXCEPT ![t][w].i = r.i,
                                    ![t][w].z = IF r.wait THEN map.zoom ELSE @,
                                    ![t][w].pc = IF r.wait THEN "fetch" ELSE "done"]
                /\ db' = r.st.db
                /\ map' = r.st.map
                /\ cyc' = [cyc EXCEPT ![t].io = r.st.io]
    /\ UNCHANGED <<scn, host, saved, now, gp, ret, opn, pureVars>>

\* getTile from the answer of the network on: the sniff, the putTile, and in
\* load the paste and the count
WEnd(t, w) ==
    /\ wk[t][w].pc = "fetch"
    /\ \E resp \in Responses :
        LET tile == wk[t][w].part[wk[t][w].i]
            data == IF resp = "error" \/ imghdr_what(resp) = "None" THEN "None" ELSE resp
            img == IF data # "None" /\ Decodes(data) THEN data ELSE "white"
            posx == (tile[1] - map.col1) * EngineTM.tileSize
            posy == Abs(tile[2] - map.row1) * EngineTM.tileSize
        IN  /\ db' = IF data = "None" THEN db
                     ELSE putTile(db, tile[1], tile[2], map.zoom, data, now)
            /\ map' = [map EXCEPT !.mosaic = paste(@, posx, posy, img),
                                  !.cptTiles = @ + 1]
            /\ wk' = [wk EXCEPT ![t][w] = [nextTile(@) EXCEPT !.put = (data # "None")]]
            /\ cyc' = [cyc EXCEPT ![t].io =
                        @ \cup (IF data = "None" THEN {"net"} ELSE {"net", "put"})]
    /\ UNCHANGED <<scn, host, saved, now, gp, ret, opn, pureVars>>

\* the mosaic shown when the download of tile (0, 0) had failed
WhiteSave == [ShownSave EXCEPT !.px = {<<e[1], e[2], "white">> : e \in @}]

\* the viewer shows the map of Scene0 and the user is about to click; the
\* tile of that view is in the cache or could not be downloaded
InitWheel ==
    /\ scn = Scene0
    /\ map = ShownMapImage
    /\ cyc = [t \in Threads |-> NoCycle]
    /\ wk = [t \in Threads |-> [w \in Parts |-> NoWorker]]
    /\ host = [pc |-> "idle", n |-> 0, invoked |-> TRUE, inMove |-> FALSE,
               left |-> MaxWheelGets]
    /\ \/ db = UsedDb /\ saved = ShownSave
       \/ db = FreshDb /\ saved = WhiteSave
    /\ now = 0
    /\ gp = "none"
    /\ ret = NoRet
    /\ opn = 0
    /\ pin = [op |-> "none"]
    /\ pout = [op |-> "none"]

NextWheel ==
    \/ HostStop \/ HostClick \/ HostZoomIn \/ HostJoined
    \/ \E t \in Threads :
        \/ CRequest(t) \/ CMosaic(t) \/ CLaunch(t) \/ CJoin(t) \/ CReset(t)
        \/ \E w \in Parts : WBegin(t, w) \/ WEnd(t, w)

SpecWheel == InitWheel /\ [][NextWheel]_vars

-----------------------------------------------------------------------------
(* The viewer and its timer: the map is opened, and while the first cycle
   runs the modal operator reports its progress on every TIMER event *)

\* calls of get() in this specification
MaxTimerGets == 1

\* MapImage.progress, called by MAP_VIEW.modal on a TIMER event: the pair
\* (self.cptTiles, self.nbTiles), or the error of reading an attribute that
\* run_multi has not set yet
progress(m) ==
    IF m.hasCpt
    THEN [op |-> "progress", nb |-> m.cptTiles, nbTotal |-> m.nbTiles, err |-> "none"]
    ELSE [op |-> "progress", nb |-> 0, nbTotal |-> 0, err |-> "AttributeError"]

\* MAP_VIEW.modal, TIMER: self.nb, self.nbTotal = self.map.progress()
HostTimer ==
    /\ host.pc = "idle"
    /\ host.invoked
    /\ ret' = progress(map)
    /\ UNCHANGED <<db, now, gp, opn, pureVars, engineVars>>

\* run_multi: self.nbTiles, self.cptTiles = 0, 0 stores self.nbTiles first
CResetTotal(t) ==
    /\ cyc[t].pc = "reset"
    /\ map' = [map EXCEPT !.nbTiles = 0]
    /\ cyc' = [cyc EXCEPT ![t].pc = "reset_count"]
    /\ UNCHANGED <<scn, wk, host, saved, cacheVars, pureVars>>

\* run_multi: then it stores self.cptTiles, and the thread ends
CResetCount(t) ==
    /\ cyc[t].pc = "reset_count"
    /\ map' = [map EXCEPT !.cptTiles = 0,
                          !.mosaic = IF \A u \in Threads \ {t} : ~Alive(u)
                                     THEN NewMapImage.mosaic ELSE @]
    /\ cyc' = [cyc EXCEPT ![t] = [NoCycle EXCEPT !.pc = "done"]]
    /\ wk' = [wk EXCEPT ![t] = [w \in Parts |-> NoWorker]]
    /\ UNCHANGED <<scn, host, saved, cacheVars, pureVars>>

InitTimer ==
    /\ scn \in {[Scene0 EXCEPT !.z = z] : z \in Layer.zmin..Layer.zmax}
    /\ map = NewMapImage
    /\ cyc = [t \in Threads |-> NoCycle]
    /\ wk = [t \in Threads |-> [w \in Parts |-> NoWorker]]
    /\ host = [pc |-> "idle", n |-> 0, invoked |-> FALSE, inMove |-> FALSE,
               left |-> MaxTimerGets]
    /\ saved = NoSave
    /\ db \in {NoFile, UsedDb}
    /\ now = 0
    /\ gp = "none"
    /\ ret = NoRet
    /\ opn = 0
    /\ pin = [op |-> "none"]
    /\ pout = [op |-> "none"]

NextTimer ==
    \/ HostInvoke \/ HostTimer
    \/ \E t \in Threads :
        \/ CRequest(t) \/ CMosaic(t) \/ CLaunch(t) \/ CJoin(t)
        \/ CResetTotal(t) \/ CResetCount(t)
        \/ \E w \in Parts :
            \/ WCheck(t, w) \/ WIsGpkg(t, w) \/ WCreate(t, w) \/ WCacheGet(t, w)
            \/ WFetch(t, w) \/ WPaste(t, w) \/ WIncWrite(t, w)

SpecTimer == InitTimer /\ [][NextTimer]_vars

-----------------------------------------------------------------------------
(* The viewer under fair scheduling: the map is opened on Scene0 and the user
   presses the mouse button, clicks or turns the wheel up, at any moment of
   the cycle that runs *)

\* calls of get() in this specification
MaxLiveGets == 2

\* a step of a thread that runs run_multi or load
ThreadStep ==
    \E t \in Threads :
        \/ CRequest(t) \/ CMosaic(t) \/ CLaunch(t) \/ CJoin(t) \/ CReset(t)
        \/ \E w \in Parts :
            \/ WCheck(t, w) \/ WIsGpkg(t, w) \/ WCreate(t, w) \/ WCacheGet(t, w)
            \/ WFetch(t, w) \/ WPaste(t, w) \/ WIncWrite(t, w)

InitLive ==
    /\ scn = Scene0
    /\ map = NewMapImage
    /\ cyc = [t \in Threads |-> NoCycle]
    /\ wk = [t \in Threads |-> [w \in Parts |-> NoWorker]]
    /\ host = [pc |-> "idle", n |-> 0, invoked |-> FALSE, inMove |-> FALSE,
               left |-> MaxLiveGets]
    /\ saved = NoSave
    /\ db \in {NoFile, UsedDb}
    /\ now = 0
    /\ gp = "none"
    /\ ret = NoRet
    /\ opn = 0
    /\ pin = [op |-> "none"]
    /\ pout = [op |-> "none"]

NextLive ==
    \/ HostInvoke \/ HostStop \/ HostClick \/ HostZoomIn \/ HostJoined
    \/ ThreadStep

\* as long as a cycle thread or a worker can run, or a join() of the main
\* thread can return, one of them does: the interpreter schedules the threads
\* that can run, and urlopen returns or times out (timeout=3)
FairSpec == InitLive /\ [][NextLive]_vars /\ WF_vars(ThreadStep \/ HostJoined)

-----------------------------------------------------------------------------
(* The viewer under the wheel: the map is opened on a scene whose zoom was
   stored by an earlier use of the viewer, with this layer or with another,
   and the user turns the wheel up and down *)

\* calls of get() in this specification
MaxZoomGets == 2

\* the zoom levels a scene may hold: scn["z"] is set to 0 if the scene has
\* none, and is otherwise kept as it is
SceneZooms == 0..(Layer.zmax + 1)

InitZoom ==
    /\ scn \in {[Scene0 EXCEPT !.z = z] : z \in SceneZooms}
    /\ map = NewMapImage
    /\ cyc = [t \in Threads |-> NoCycle]
    /\ wk = [t \in Threads |-> [w \in Parts |-> NoWorker]]
    /\ host = [pc |-> "idle", n |-> 0, invoked |-> FALSE, inMove |-> FALSE,
               left |-> MaxZoomGets]
    /\ saved = NoSave
    /\ db \in {NoFile, UsedDb}
    /\ now = 0
    /\ gp = "none"
    /\ ret = NoRet
    /\ opn = 0
    /\ pin = [op |-> "none"]
    /\ pout = [op |-> "none"]

NextZoom ==
    \/ HostInvoke \/ HostZoomIn \/ HostZoomOut \/ HostJoined
    \/ \E t \in Threads :
        \/ CRequest(t) \/ CMosaic(t) \/ CLaunch(t) \/ CJoin(t) \/ CReset(t)
        \/ \E w \in Parts : WBegin(t, w) \/ WEnd(t, w)

SpecZoom == InitZoom /\ [][NextZoom]_vars

-----------------------------------------------------------------------------
(* Pure functions, applied to inputs drawn in the initial state *)

\* grid width and height, in tiles, at a zoom level
MatrixWidth(tm, zoom) == CeilDiv(tm.xmax - tm.xmin, tm.tileSize * getRes(tm, zoom))
MatrixHeight(tm, zoom) == CeilDiv(tm.ymax - tm.ymin, tm.tileSize * getRes(tm, zoom))

\* str(v) of an integer
str(v) == ToString(v)

\* x & mask != 0, for mask a power of two
BitSet(x, mask) == (x \div mask) % 2 # 0

\* one pass of the loop of getQuadKey
quadDigit(x, y, i) ==
    LET mask == Pow(2, i - 1)
    IN  (IF BitSet(x, mask) THEN 1 ELSE 0) + (IF BitSet(y, mask) THEN 2 ELSE 0)

\* for i in range(1, z + 1): the loop of a mis-written getQuadKey
RECURSIVE quadKeyLoop_lsb(_, _, _, _)
quadKeyLoop_lsb(x, y, z, i) ==
    IF i > z THEN ""
    ELSE str(quadDigit(x, y, i)) \o quadKeyLoop_lsb(x, y, z, i + 1)

\* for i in range(z, 0, -1): quadKey += str(digit)
RECURSIVE quadKeyLoop(_, _, _)
quadKeyLoop(x, y, i) ==
    IF i < 1 THEN ""
    ELSE str(quadDigit(x, y, i)) \o quadKeyLoop(x, y, i - 1)

\* a mis-written getQuadKey: the loop runs from the lowest bit upwards
getQuadKey_lsb(x, y, z) == quadKeyLoop_lsb(x, y, z, 1)

\* MapService.getQuadKey
getQuadKey(x, y, z) == quadKeyLoop(x, y, z)

\* sources (servicesDefs.sources entries): the attributes buildUrl reads
Sources ==
    [service : {"TMS"}, quadTree : BOOLEAN, VERSION : {"none"},
     tileSize : {GridNW.tileSize}, grid : Grids \cup {GridWM}]
    \cup [service : {"WMTS"}, quadTree : {FALSE}, VERSION : {"1.0.0"},
          tileSize : {GridNW.tileSize}, grid : Grids \cup {GridWM}]
    \cup [service : {"WMS"}, quadTree : {FALSE}, VERSION : {"1.1.1", "1.3.0"},
          tileSize : {GridNW.tileSize}, grid : Grids \cup {GridWM}]

\* ','.join(map(str, [a, b, c, d]))
joinBbox(a, b, c, d) == str(a) \o "," \o str(b) \o "," \o str(c) \o "," \o str(d)

\* a mis-written buildUrl: the bounding box always written x first
buildUrl_xy(src, col, row, zoom) ==
    LET tm1 == TileMatrix(src.grid)
        xy == getTileCoords(tm1, col, row, zoom)
        xmin == xy[1]
        ymax == xy[2]
        xmax == xmin + tm1.tileSize * getRes(tm1, zoom)
        ymin == ymax - tm1.tileSize * getRes(tm1, zoom)
    IN  CASE src.service = "TMS" ->
                IF ~src.quadTree
                THEN [X |-> str(col), Y |-> str(row), Z |-> str(zoom)]
                ELSE [QUADKEY |-> getQuadKey(col, row, zoom)]
          [] src.service = "WMTS" ->
                [X |-> str(col), Y |-> str(row), Z |-> str(zoom)]
          [] src.service = "WMS" ->
                [CRS |-> str(tm1.CRS), WIDTH |-> str(src.tileSize),
                 HEIGHT |-> str(src.tileSize),
                 BBOX |-> joinBbox(xmin, ymin, xmax, ymax)]

\* a mis-written buildUrl: the tile taken to extend upwards from the corner
\* that getTileCoords returns
buildUrl_up(src, col, row, zoom) ==
    LET tm1 == TileMatrix(src.grid)
        xy == getTileCoords(tm1, col, row, zoom)
        xmin == xy[1]
        ymin == xy[2]
        xmax == xmin + tm1.tileSize * getRes(tm1, zoom)
        ymax == ymin + tm1.tileSize * getRes(tm1, zoom)
    IN  CASE src.service = "TMS" ->
                IF ~src.quadTree
                THEN [X |-> str(col), Y |-> str(row), Z |-> str(zoom)]
                ELSE [QUADKEY |-> getQuadKey(col, row, zoom)]
          [] src.service = "WMTS" ->
                [X |-> str(col), Y |-> str(row), Z |-> str(zoom)]
          [] src.service = "WMS" ->
                [CRS |-> str(tm1.CRS), WIDTH |-> str(src.tileSize),
                 HEIGHT |-> str(src.tileSize),
                 BBOX |-> IF src.VERSION = "1.3.0" /\ tm1.CRS = 4326
                          THEN joinBbox(ymin, xmin, ymax, xmax)
                          ELSE joinBbox(xmin, ymin, xmax, ymax)]

\* MapService.buildUrl: the url as the values put in place of the template's
\* {X}, {Y}, {Z}, {QUADKEY}, {CRS}, {WIDTH}, {HEIGHT} and {BBOX}
buildUrl(src, col, row, zoom) ==
    LET tm1 == TileMatrix(src.grid)
        xy == getTileCoords(tm1, col, row, zoom)
        xmin == xy[1]
        ymax == xy[2]
        xmax == xmin + tm1.tileSize * getRes(tm1, zoom)
        ymin == ymax - tm1.tileSize * getRes(tm1, zoom)
    IN  CASE src.service = "TMS" ->
                IF ~src.quadTree
                THEN [X |-> str(col), Y |-> str(row), Z |-> str(zoom)]
                ELSE [QUADKEY |-> getQuadKey(col, row, zoom)]
          [] src.service = "WMTS" ->
                [X |-> str(col), Y |-> str(row), Z |-> str(zoom)]
          [] src.service = "WMS" ->
                [CRS |-> str(tm1.CRS), WIDTH |-> str(src.tileSize),
                 HEIGHT |-> str(src.tileSize),
                 BBOX |-> IF src.VERSION = "1.3.0" /\ tm1.CRS = 4326
                          THEN joinBbox(ymin, xmin, ymax, xmax)
                          ELSE joinBbox(xmin, ymin, xmax, ymax)]

\* a source and a tile of it, handed to buildUrl
UrlInputs == [op : {"buildUrl"}, src : Sources, col : 0..MaxCol, row : 0..MaxCol, zoom : 0..2]

\* lengths of the tile lists handed to the slicing of run_multi
PartInputs == [op : {"partsOf"}, n : 1..MaxTiles]

\* zoom levels asked of getRes, on a computed pyramid and on a resolution list
ResInputs == [op : {"getRes"}, grid : {GridNW, GridRes}, zoom : 0..MaxResZoom]

\* projected points, inside the grid's bounding box and around it
PointInputs ==
    [op : {"getTileNumber"}, grid : Grids, x : -MaxSpan..MaxSpan,
     y : -MaxSpan..MaxSpan, zoom : 0..2]

\* grid definitions handed to the TileMatrix constructor: the two origins
\* it knows and two it does not, on two bounding boxes
OriginLocs == {"NW", "SW", "NE", "CENTER"}
GridInputs ==
    {[op |-> "TileMatrix", grid |-> [GridNW EXCEPT !.originLoc = o, !.bbox = b]] :
        o \in OriginLocs, b \in {GridNW.bbox, <<0, -2, 8, 6>>}}

\* a mis-written offset: the row difference taken with its sign
pasteOffset_signed(tile, col1, row1, tileSize) ==
    <<(tile[1] - col1) * tileSize, (tile[2] - row1) * tileSize>>

\* load: posx, posy of a tile in the mosaic whose first tile is (col1, row1)
pasteOffset(tile, col1, row1, tileSize) ==
    <<(tile[1] - col1) * tileSize, Abs(tile[2] - row1) * tileSize>>

\* pairs of tiles (x, y) and (x2, y2) at one zoom level, handed to getQuadKey
QuadInputs ==
    [op : {"quadKey"}, x : 0..MaxKey, y : 0..MaxKey,
     x2 : 0..MaxKey, y2 : 0..MaxKey, z : 0..MaxKeyZoom]

PureInputs ==
    [op : {"roundtrip"}, grid : Grids, col : 0..MaxCol, row : 0..MaxCol, zoom : 0..2]

\* viewports (xmin, ymin, xmax, ymax) handed to listTiles
ListInputs ==
    {c \in [op : {"listTiles"}, grid : Grids, zoom : 0..2,
             bbox : (-MaxSpan..MaxSpan) \X (-MaxSpan..MaxSpan)
                    \X (-MaxSpan..MaxSpan) \X (-MaxSpan..MaxSpan)] :
        c.bbox[1] <= c.bbox[3] /\ c.bbox[2] <= c.bbox[4]}

\* viewports for which the tiles are listed and placed in a mosaic
OffsetInputs == {[c EXCEPT !.op = "offsets"] : c \in ListInputs}

PureCalls == PureInputs \cup ListInputs \cup QuadInputs \cup UrlInputs \cup PartInputs \cup ResInputs \cup PointInputs \cup GridInputs \cup OffsetInputs

InitTM ==
    /\ pin \in PureCalls
    /\ pout = [op |-> "none"]
    /\ db = NoFile
    /\ now = 0
    /\ gp = "none"
    /\ ret = NoRet
    /\ opn = 0
    /\ EngineNotBuilt

\* tm.getTileNumber(*tm.getTileCoords(col, row, zoom), zoom)
PureRoundTrip ==
    /\ pin.op = "roundtrip"
    /\ pout.op = "none"
    /\ LET tm == TileMatrix(pin.grid)
           xy == getTileCoords(tm, pin.col, pin.row, pin.zoom)
       IN  pout' = [op |-> "roundtrip", coords |-> xy,
                    number |-> getTileNumber(tm, xy[1], xy[2], pin.zoom)]
    /\ UNCHANGED <<pin, cacheVars, engineVars>>

\* MapService.listTiles(bbox, zoom)
PureListTiles ==
    /\ pin.op = "listTiles"
    /\ pout.op = "none"
    /\ LET lt == listTiles(TileMatrix(pin.grid), pin.bbox, pin.zoom)
       IN  pout' = [op |-> "listTiles", cols |-> lt.cols, rows |-> lt.rows]
    /\ UNCHANGED <<pin, cacheVars, engineVars>>

\* MapService.getQuadKey(x, y, z), on two tiles of one zoom level
PureQuadKey ==
    /\ pin.op = "quadKey"
    /\ pout.op = "none"
    /\ pout' = [op |-> "quadKey",
                key |-> getQuadKey(pin.x, pin.y, pin.z),
                key2 |-> getQuadKey(pin.x2, pin.y2, pin.z)]
    /\ UNCHANGED <<pin, cacheVars, engineVars>>

\* MapService.buildUrl(layKey, col, row, zoom)
PureBuildUrl ==
    /\ pin.op = "buildUrl"
    /\ pout.op = "none"
    /\ pout' = [op |-> "buildUrl", url |-> buildUrl(pin.src, pin.col, pin.row, pin.zoom)]
    /\ UNCHANGED <<pin, cacheVars, engineVars>>

\* run_multi: the slicing of a list of n tiles
PureParts ==
    /\ pin.op = "partsOf"
    /\ pout.op = "none"
    /\ pout' = [op |-> "partsOf", parts |-> partsOf([k \in 1..pin.n |-> <<k, 0>>])]
    /\ UNCHANGED <<pin, cacheVars, engineVars>>

\* TileMatrix.getRes(zoom): the value returned or the exception raised
PureGetRes ==
    /\ pin.op = "getRes"
    /\ pout.op = "none"
    /\ LET tm == TileMatrix(pin.grid) IN
        pout' = IF tm.hasRes /\ IndexError(tm, resIndex(tm, pin.zoom))
                THEN [op |-> "getRes", err |-> "IndexError", res |-> 0]
                ELSE [op |-> "getRes", err |-> "none", res |-> getRes(tm, pin.zoom)]
    /\ UNCHANGED <<pin, cacheVars, engineVars>>

\* TileMatrix.getTileNumber(x, y, zoom)
PureTileNumber ==
    /\ pin.op = "getTileNumber"
    /\ pout.op = "none"
    /\ pout' = [op |-> "getTileNumber",
                number |-> getTileNumber(TileMatrix(pin.grid), pin.x, pin.y, pin.zoom)]
    /\ UNCHANGED <<pin, cacheVars, engineVars>>

\* TileMatrix(gridDef): the origin of the matrix built, or the exception
PureTileMatrix ==
    /\ pin.op = "TileMatrix"
    /\ pout.op = "none"
    /\ LET tm == TileMatrix(pin.grid) IN
        pout' = IF tm.ok
                THEN [op |-> "TileMatrix", err |-> "none",
                      originx |-> tm.originx, originy |-> tm.originy]
                ELSE [op |-> "TileMatrix", err |-> "NotImplementedError"]
    /\ UNCHANGED <<pin, cacheVars, engineVars>>

\* request and load on a viewport: the lists of listTiles, the first tile,
\* the size of the mosaic, and for each tile of the list of run_multi the
\* offset at which load pastes it
PureOffsets ==
    /\ pin.op = "offsets"
    /\ pout.op = "none"
    /\ LET tm == TileMatrix(pin.grid)
           lt == listTiles(tm, pin.bbox, pin.zoom)
           tiles == tileList(lt.cols, lt.rows)
       IN  pout' = [op |-> "offsets", tiles |-> tiles,
                    img_w |-> Len(lt.cols) * tm.tileSize,
                    img_h |-> Len(lt.rows) * tm.tileSize,
                    offsets |-> [k \in 1..Len(tiles) |->
                        pasteOffset(tiles[k], lt.cols[1], lt.rows[1], tm.tileSize)]]
    /\ UNCHANGED <<pin, cacheVars, engineVars>>

NextTM ==
    \/ PureRoundTrip \/ PureListTiles \/ PureQuadKey \/ PureBuildUrl \/ PureParts
    \/ PureGetRes \/ PureTileNumber \/ PureTileMatrix \/ PureOffsets

SpecTM == InitTM /\ [][NextTM]_vars

-----------------------------------------------------------------------------
(* Claims about the cache (SpecCache) *)

LastKeyRows == TileRows(db, ret.key[1], ret.key[2], ret.key[3])

\* C3: the tile table never holds two rows with the same (zoom, column, row),
\* and after putTile(col, row, zoom, b) the one row of that key holds bytes b
\* and the time of that call, whatever the key held before.
C3_Upsert ==
    /\ \A r1, r2 \in db.tiles :
          (r1.zoom_level = r2.zoom_level /\ r1.tile_column = r2.tile_column
              /\ r1.tile_row = r2.tile_row) => r1 = r2
    /\ ret.op = "putTile" =>
          \E r \in LastKeyRows :
              /\ LastKeyRows = {r}
              /\ r.tile_data = ret.data
              /\ r.last_modified = ret.at

\* two inserts have run and one row is left: the second replaced the first
C3_Witness ==
    /\ ret.op = "putTile"
    /\ ret.data = "pngB"
    /\ db.seq = 2
    /\ Cardinality(db.tiles) = 1
    /\ \E r \in db.tiles : r.id = 2 /\ r.tile_data = "pngB"

\* C4 as claimed: getTile misses exactly when the key has no row or the row's
\* age, counted in ticks (finer than a day), is more than 90 days.
C4_SubDayFreshness ==
    ret.op = "getTile" =>
        (ret.data = "None" <=>
            \/ LastKeyRows = {}
            \/ \E r \in LastKeyRows : ret.at - r.last_modified > MAX_DAYS * TicksPerDay)

\* C4 as amended: getTile misses exactly when the key has no row or the row is
\* at least 91 whole days old; any younger row is returned with its bytes.
C4_WholeDayFreshness ==
    ret.op = "getTile" =>
        IF LastKeyRows = {} THEN ret.data = "None"
        ELSE \A r \in LastKeyRows :
                IF ret.at - r.last_modified >= (MAX_DAYS + 1) * TicksPerDay
                THEN ret.data = "None"
                ELSE ret.data = r.tile_data

\* a row between 90 and 91 days old was returned as a hit
C4_Witness ==
    /\ ret.op = "getTile"
    /\ ret.data # "None"
    /\ \E r \in LastKeyRows :
          /\ ret.at - r.last_modified > MAX_DAYS * TicksPerDay
          /\ ret.at - r.last_modified < (MAX_DAYS + 1) * TicksPerDay

\* C5: a getTile call leaves the whole container as it was: the tile rows
\* (bytes and timestamps) and every metadata record, whether it hit or missed.
C5_ReadOnly ==
    [][(opn' # opn /\ ret'.op = "getTile") => db' = db]_vars

\* a stale row was reported as a miss and is still stored
C5_Witness ==
    /\ ret.op = "getTile"
    /\ ret.data = "None"
    /\ \E r \in LastKeyRows : r.tile_data = "pngA"

\* C10 as claimed: whatever file sits at the path, the constructor returns
\* without error and leaves a valid, schema-initialised container.
C10_Reinitialised ==
    ret.op = "init" => (ret.err = "none" /\ isGPKG(db) = "True")

-----------------------------------------------------------------------------
(* Claims about the tile matrix (SpecTM) *)

ValidTile(p) ==
    LET tm == TileMatrix(p.grid) IN
    /\ p.zoom < tm.nbLevels
    /\ p.col < MatrixWidth(tm, p.zoom)
    /\ p.row < MatrixHeight(tm, p.zoom)

\* C9 as claimed: for both origin policies and every valid (column, row, zoom),
\* the tile number of the tile's coordinates is (column, row) again.
C9_RoundTrip ==
    (pout.op = "roundtrip" /\ ValidTile(pin)) => pout.number = <<pin.col, pin.row>>

-----------------------------------------------------------------------------
(* Claims about the fetch cycles (Spec and SpecClick) *)

\* C1 as claimed: in every reachable state at most one run_multi thread is
\* alive, a thread whose cycle request() suppressed included.
C1_OneCycleThread ==
    Cardinality({t \in Threads : Alive(t)}) <= 1

\* a worker of thread t passes the running test of load and begins a tile
WorkerBegins(t, w) ==
    /\ wk[t][w].pc = "check"
    /\ \/ wk'[t][w].pc \notin {"check", "done", "none"}
       \/ wk'[t][w].i > wk[t][w].i

\* C2 as claimed: once stop() has cleared the flag while a cycle was
\* downloading, no worker of that cycle begins a tile and the cycle yields no
\* mosaic.
C2_CancelHalts ==
    [][\A t \in Threads :
          cyc[t].can => /\ cyc'[t].res # "yielded"
                        /\ \A w \in Parts : ~WorkerBegins(t, w)]_vars

\* C6 as claimed: a tile that load pastes as the white placeholder was not
\* stored by putTile in that call of getTile.
C6_FailedNotCached ==
    \A t \in Threads, w \in Parts :
        (wk[t][w].pc = "incwrite" /\ wk[t][w].img = "white") => ~wk[t][w].put

\* C7 as claimed: a cycle that ends neither suppressed nor stopped has had
\* every worker run to the end of its part, has pasted at every position of
\* its tile list and has yielded that mosaic.
C7_CompleteMosaic ==
    \A t \in Threads :
        (cyc[t].pc = "reset" /\ ~cyc[t].sup /\ ~cyc[t].stp) =>
            /\ \A w \in Parts : wk[t][w].pc # "crashed"
            /\ cyc[t].res = "yielded"
            /\ saved.by = t =>
                  Cardinality({<<e[1], e[2]>> : e \in saved.px}) = Len(cyc[t].tiles)

\* C8 as claimed: a cycle that request() suppressed reads no tile from the
\* cache, asks the network for none, stores none and yields no mosaic.
C8_SuppressedIdle ==
    \A t \in Threads :
        cyc[t].sup => (cyc[t].io = {} /\ cyc[t].res # "yielded")

-----------------------------------------------------------------------------
(* Claims about the cache handle, the tile lists and the worker parts *)

\* C11 as claimed: while no cache handle is stored, at most one worker is
\* inside the GeoPackage constructor of getCache, and no worker thread ends
\* with the error of a constructor that found the container half made.
C11_SingleCreation ==
    \A t \in Threads :
        /\ Cardinality({w \in Parts : wk[t][w].pc \in {"isgpkg", "create"}}) <= 1
        /\ \A w \in Parts : wk[t][w].pc # "crashed"

\* extent of a tile on the ground: getTileCoords gives its top left corner
InTile(tm, col, row, zoom, px, py) ==
    LET xy == getTileCoords(tm, col, row, zoom)
        geoTileSize == tm.tileSize * getRes(tm, zoom)
    IN  /\ xy[1] <= px /\ px <= xy[1] + geoTileSize
        /\ xy[2] - geoTileSize <= py /\ py <= xy[2]

Range(s) == {s[i] : i \in 1..Len(s)}

\* C12: listTiles returns contiguous column and row lists that start at
\* getTileNumber(xmin, ymax, zoom) and hold ceil(size / (tileSize * res)) + 1
\* entries per axis, rows ascending on an NW grid and descending on an SW grid,
\* and every point of the viewport lies in a tile of cols x rows.
C12_ListTilesCover ==
    pout.op = "listTiles" =>
        LET tm == TileMatrix(pin.grid)
            z == pin.zoom
            geoTileSize == tm.tileSize * getRes(tm, z)
            first == getTileNumber(tm, pin.bbox[1], pin.bbox[4], z)
            step == IF tm.originLoc = "NW" THEN 1 ELSE -1
        IN  /\ Len(pout.cols) = CeilDiv(pin.bbox[3] - pin.bbox[1], geoTileSize) + 1
            /\ Len(pout.rows) = CeilDiv(pin.bbox[4] - pin.bbox[2], geoTileSize) + 1
            /\ pout.cols[1] = first[1]
            /\ pout.rows[1] = first[2]
            /\ \A i \in 2..Len(pout.cols) : pout.cols[i] = pout.cols[i - 1] + 1
            /\ \A i \in 2..Len(pout.rows) : pout.rows[i] = pout.rows[i - 1] + step
            /\ \A px \in pin.bbox[1]..pin.bbox[3], py \in pin.bbox[2]..pin.bbox[4] :
                  /\ getTileNumber(tm, px, py, z)[1] \in Range(pout.cols)
                  /\ getTileNumber(tm, px, py, z)[2] \in Range(pout.rows)
                  /\ \E c \in Range(pout.cols), r \in Range(pout.rows) :
                        InTile(tm, c, r, z, px, py)

\* a viewport off the tile edges of an SW grid, three columns and two rows wide
C12_Witness ==
    /\ pout.op = "listTiles"
    /\ pin.grid.originLoc = "SW"
    /\ pin.zoom = 2
    /\ pin.bbox = <<-1, 1, 2, 2>>
    /\ Len(pout.cols) = 3
    /\ Len(pout.rows) = 2

\* C13: the mosaic that run_multi creates is (number of columns x tileSize)
\* wide and (number of rows x tileSize) high and empty, for the column and row
\* lists from which the same step takes the tile list of the cycle.
C13_MosaicSize ==
    [][\A t \in Threads :
          (cyc[t].pc = "mosaic" /\ cyc'[t].pc = "launch") =>
              /\ cyc'[t].tiles = tileList(map.cols, map.rows)
              /\ map'.mosaic.w = Len(map.cols) * EngineTM.tileSize
              /\ map'.mosaic.h = Len(map.rows) * EngineTM.tileSize
              /\ map'.mosaic.px = {}]_vars

\* a cycle with three columns and two rows of tiles has made its mosaic
C13_Witness ==
    \E t \in Threads :
        /\ cyc[t].pc = "launch"
        /\ Len(map.cols) = 3 /\ Len(map.rows) = 2
        /\ Len(cyc[t].tiles) = 6
        /\ map.mosaic.w = 3 * EngineTM.tileSize
        /\ map.mosaic.h = 2 * EngineTM.tileSize

\* bit k (0 the lowest) of a tile number
BitOf(n, k) == (n \div Pow(2, k)) % 2

RECURSIVE Join(_)
Join(digits) == IF digits = <<>> THEN "" ELSE str(Head(digits)) \o Join(Tail(digits))

\* C14: the quadkey of (col, row, zoom) is a string of exactly zoom digits of
\* 0..3, the digit at place i (highest bit first) being the bit of col plus
\* twice the bit of row; quadKey(3, 5, 3) is "213"; and two tiles in
\* 0..2^zoom - 1 with the same quadkey are the same tile.
C14_QuadKey ==
    pout.op = "quadKey" =>
        /\ \E digits \in [1..pin.z -> 0..3] :
              /\ pout.key = Join(digits)
              /\ \A i \in 1..pin.z :
                    digits[i] = BitOf(pin.x, pin.z - i) + 2 * BitOf(pin.y, pin.z - i)
        /\ (pin.x = 3 /\ pin.y = 5 /\ pin.z = 3) => pout.key = "213"
        /\ (/\ pin.x < Pow(2, pin.z) /\ pin.y < Pow(2, pin.z)
            /\ pin.x2 < Pow(2, pin.z) /\ pin.y2 < Pow(2, pin.z)
            /\ pout.key = pout.key2)
              => (pin.x = pin.x2 /\ pin.y = pin.y2)

\* the quadkey of tile (3, 5) at zoom 3, next to that of another tile
C14_Witness ==
    /\ pout.op = "quadKey"
    /\ pin.x = 3 /\ pin.y = 5 /\ pin.z = 3
    /\ pout.key = "213"
    /\ pout.key2 = "300"

\* C15: in the url of a WMS source the bounding box is written
\* (ymin, xmin, ymax, xmax) exactly when the template's VERSION is 1.3.0 and
\* the CRS of the tile matrix is 4326, and (xmin, ymin, xmax, ymax) otherwise.
C15_BboxOrder ==
    (pout.op = "buildUrl" /\ pin.src.service = "WMS") =>
        LET tm1 == TileMatrix(pin.src.grid)
            geoTileSize == tm1.tileSize * getRes(tm1, pin.zoom)
            xmin == getTileCoords(tm1, pin.col, pin.row, pin.zoom)[1]
            ymax == getTileCoords(tm1, pin.col, pin.row, pin.zoom)[2]
            xmax == xmin + geoTileSize
            ymin == ymax - geoTileSize
            yx == joinBbox(ymin, xmin, ymax, xmax)
            xy == joinBbox(xmin, ymin, xmax, ymax)
        IN  IF pin.src.VERSION = "1.3.0" /\ pin.src.grid.CRS = 4326
            THEN pout.url.BBOX = yx
            ELSE pout.url.BBOX = xy

\* the first tile of zoom 1 asked of a WMS 1.3.0 source on the 4326 grid
C15_Witness ==
    /\ pout.op = "buildUrl"
    /\ pin.src.service = "WMS" /\ pin.src.VERSION = "1.3.0"
    /\ pin.src.grid = GridNW
    /\ pin.col = 0 /\ pin.row = 0 /\ pin.zoom = 1
    /\ pout.url.BBOX = "0,-4,4,0"

\* the parts of the workers that cycle t started, in the order of their start
RECURSIVE PartsJoined(_, _)
PartsJoined(t, w) ==
    IF w > nbThread \/ wk[t][w].pc = "none" THEN <<>>
    ELSE wk[t][w].part \o PartsJoined(t, w + 1)

\* the workers of cycle t whose part holds the tile
Owners(t, tile) == {w \in Parts : tile \in Range(wk[t][w].part)}

\* C16: the parts of the workers of a cycle are contiguous slices of its tile
\* list, disjoint and covering it, so every (col, row) of the cycle is in the
\* part of exactly one worker; a worker goes through its part forwards and
\* asks the network at most once at each tile, so a cycle makes at most one
\* request per tile.
C16_OneWorkerPerTile ==
    [][\A t \in Threads :
          /\ cyc'[t].pc = "join" =>
                /\ PartsJoined(t, 1)' = cyc'[t].tiles
                /\ \A i, j \in 1..Len(cyc'[t].tiles) :
                      cyc'[t].tiles[i] = cyc'[t].tiles[j] => i = j
                /\ \A tile \in Range(cyc'[t].tiles) :
                      Cardinality(Owners(t, tile)') = 1
          /\ \A w \in Parts :
                /\ (cyc[t].pc = "join" /\ cyc'[t].pc = "join") =>
                      /\ wk'[t][w].part = wk[t][w].part
                      /\ wk'[t][w].i >= wk[t][w].i
                /\ (wk'[t][w].pc = "fetch" /\ wk[t][w].pc # "fetch") =>
                      wk[t][w].pc = "cacheget"
                /\ (wk'[t][w].pc = "cacheget" /\ wk[t][w].pc # "cacheget") =>
                      wk[t][w].pc \in {"check", "isgpkg", "create"}
                /\ (wk'[t][w].pc = "check" /\ wk[t][w].pc # "check") =>
                      \/ cyc[t].pc = "launch"
                      \/ wk'[t][w].i = wk[t][w].i + 1]_vars

\* three workers with two tiles each, one of them back from the network
C16_Witness ==
    \E t \in Threads :
        /\ cyc[t].pc = "join"
        /\ Len(cyc[t].tiles) = 6
        /\ Cardinality({w \in Parts : Len(wk[t][w].part) = 2}) = 3
        /\ \E w \in Parts : wk[t][w].pc = "paste" /\ wk[t][w].put /\ wk[t][w].i = 2

RECURSIVE Concat(_)
Concat(ss) == IF ss = <<>> THEN <<>> ELSE Head(ss) \o Concat(Tail(ss))

\* C17 as claimed: a tile list of any length n >= 1 is cut into exactly
\* nbThread (4) parts, one per worker.
C17_FourParts ==
    pout.op = "partsOf" => Len(pout.parts) = nbThread

\* C17 amended: a list of n >= 1 tiles is cut into contiguous parts of
\* q = ceil(n / 4) tiles, the last one possibly shorter and none empty; there
\* are never more than 4 parts, and fewer than 4 exactly for n in
\* {1, 2, 3, 5, 6, 9}.
C17_AtMostFourParts ==
    pout.op = "partsOf" =>
        LET n == pin.n
            q == CeilDiv(n, nbThread)
            np == Len(pout.parts)
        IN  /\ Concat(pout.parts) = [k \in 1..n |-> <<k, 0>>]
            /\ np >= 1 /\ np <= nbThread
            /\ \A k \in 1..np : Len(pout.parts[k]) >= 1
            /\ \A k \in 1..(np - 1) : Len(pout.parts[k]) = q
            /\ np < nbThread <=> n \in {1, 2, 3, 5, 6, 9}

\* six tiles (three columns, two rows) are cut into three parts of two
C17_Witness ==
    /\ pout.op = "partsOf"
    /\ pin.n = 6
    /\ Len(pout.parts) = 3
    /\ \A k \in 1..3 : Len(pout.parts[k]) = 2

\* the image that load makes of the tile bytes the cache holds for a tile
\* of the tile matrix, and the white tile when it holds none that decode
imgOf(f, tile, zoom) ==
    LET held == {r.tile_data : r \in TileRows(f, tile[1], tile[2], zoom)}
    IN  IF InBounds(EngineTM, tile[1], tile[2], zoom)
           /\ \E data \in held : Decodes(data)
        THEN CHOOSE data \in held : Decodes(data)
        ELSE "white"

\* the mosaic of a tile list, each tile pasted at its own position
mosaicOf(f, tiles, m) ==
    {<<(tiles[k][1] - m.col1) * EngineTM.tileSize,
       Abs(tiles[k][2] - m.row1) * EngineTM.tileSize,
       imgOf(f, tiles[k], m.zoom)>> : k \in 1..Len(tiles)}

\* C18 as claimed: the mosaic that a cycle neither suppressed nor stopped
\* yields is fixed by its tile list, the cache content and the outcome of each
\* fetch (which the cache content after the cycle records), whatever the order
\* in which the workers ran: each tile is at its own position, as the image of
\* its bytes or as the white tile.
C18_OrderIndependent ==
    \A t \in Threads :
        (/\ cyc[t].pc = "reset" /\ cyc[t].res = "yielded"
         /\ ~cyc[t].sup /\ ~cyc[t].stp /\ saved.by = t)
            => saved.px = mosaicOf(db, cyc[t].tiles, map)

\* C19 as claimed: a cycle saves and places the mosaic only when every worker
\* thread it started has ended, and once it has saved the mosaic no tile is
\* pasted into that image: the image is left as saved until run_multi puts a
\* new one in its place.
C19_YieldAfterJoin ==
    [][\A t \in Threads :
          /\ (cyc'[t].res = "yielded" /\ cyc[t].res # "yielded") => Joined(t)
          /\ (/\ cyc[t].pc = "reset" /\ cyc[t].res = "yielded"
              /\ saved.by = t /\ saved.px # {} /\ map.mosaic.px = saved.px)
                => (map'.mosaic.px = saved.px \/ map'.mosaic.px = {})]_vars

\* the steps of run_multi in the order of its statements
CycleOrder ==
    {<<"idle", "request">>, <<"request", "mosaic">>, <<"mosaic", "launch">>,
     <<"launch", "join">>, <<"join", "reset">>, <<"reset", "done">>}

\* worker w of cycle t has a tile of its part for which getTile has not returned
Resolving(t, w) ==
    \/ wk[t][w].pc \in {"check", "isgpkg", "create", "cacheget", "fetch"}
    \/ wk[t][w].pc \in {"paste", "incwrite"} /\ wk[t][w].i < Len(wk[t][w].part)

\* worker w of cycle t decodes and pastes a tile in this step
Pastes(t, w) == wk[t][w].pc = "paste" /\ wk'[t][w].pc = "incwrite"

\* C20 as claimed: the decoding and pasting of tiles starts only when no
\* worker of the cycle has a tile left to resolve.
C20_AssembleAfterDownload ==
    [][\A t \in Threads, w \in Parts :
          Pastes(t, w) => \A v \in Parts : ~Resolving(t, v)]_vars

\* C20 amended: a cycle goes through request, the new mosaic, the start of
\* the workers, the joins and then the save (done) or no save (cancelled), in
\* that order; each worker decodes and pastes a tile as soon as it has resolved
\* it, while other tiles are still being resolved, and only between the start
\* of the workers and the end of the joins; the joins end only when every
\* worker has ended.
C20_PhaseOrder ==
    [][\A t \in Threads :
          /\ cyc'[t].pc # cyc[t].pc => <<cyc[t].pc, cyc'[t].pc>> \in CycleOrder
          /\ (cyc[t].pc = "join" /\ cyc'[t].pc = "reset") =>
                /\ \A w \in Parts : wk[t][w].pc \in {"none", "done", "crashed"}
                /\ cyc'[t].res \in {"yielded", "skipped"}
          /\ cyc'[t].res # cyc[t].res =>
                (cyc'[t].pc \in {"reset", "done"} /\ cyc[t].pc \in {"join", "reset"})
          /\ \A w \in Parts :
                /\ Pastes(t, w) =>
                      /\ cyc[t].pc = "join"
                      /\ wk'[t][w].i = wk[t][w].i
                /\ (wk'[t][w].pc = "paste" /\ wk[t][w].pc # "paste") =>
                      /\ wk[t][w].pc \in {"check", "isgpkg", "create", "cacheget", "fetch"}
                      /\ wk'[t][w].i = wk[t][w].i
                /\ wk'[t][w].pc \notin {"none", "done", "crashed"} =>
                      cyc'[t].pc = "join"]_vars

\* a worker has pasted its first tile while another worker of the cycle is
\* waiting for the network
C20_Witness ==
    \E t \in Threads, w, v \in Parts :
        /\ cyc[t].pc = "join"
        /\ wk[t][w].pc = "incwrite" /\ wk[t][w].i = 1
        /\ wk[t][v].pc = "fetch"

-----------------------------------------------------------------------------
(* Claims about MapService.getTile on the cache (SpecCache) *)

Usable(rows, t) ==
    \E r \in rows : Days(t - r.last_modified) <= MAX_DAYS /\ imghdr_what(r.tile_data) # "None"

\* C22: MapService.getTile asks the network only if the cache holds no usable
\* tile for the key (no row, a stale row, or bytes failing the image sniff);
\* when the cache holds a fresh tile passing the sniff the call asks the
\* network for nothing, puts nothing, leaves the container as it was and
\* returns the cached bytes.
C22_NetworkOnlyOnMiss ==
    [][(opn' # opn /\ now' = now /\ ret'.op = "MapService.getTile") =>
          LET rows == TileRows(db, ret'.key[1], ret'.key[2], ret'.key[3])
              inb == InBounds(CacheTM, ret'.key[1], ret'.key[2], ret'.key[3])
          IN  /\ ret'.net => (inb /\ ~Usable(rows, now))
              /\ ret'.put => ret'.net
              /\ (inb /\ Usable(rows, now)) =>
                    /\ ~ret'.net /\ ~ret'.put
                    /\ db' = db
                    /\ \E r \in rows : ret'.data = r.tile_data
              /\ (inb /\ ~Usable(rows, now)) => ret'.net]_vars

\* a row put some time ago and still fresh was returned from the cache
C22_Witness ==
    /\ ret.op = "MapService.getTile"
    /\ ~ret.net /\ ~ret.put
    /\ ret.data = "pngB"
    /\ \E r \in ret.rows : r.tile_data = "pngB" /\ ret.at > r.last_modified

-----------------------------------------------------------------------------
(* Claims about the tile matrix, the container records and the mosaic offsets *)

\* C23 as claimed: on a tile matrix with a resolution list, getRes(zoom)
\* returns resolutions[zoom] for a zoom that is an index of the list, and the
\* last entry of the list, without error, for a zoom at or beyond its length.
C23_ResClamps ==
    (pout.op = "getRes" /\ pin.grid.hasRes) =>
        LET resolutions == pin.grid.resolutions IN
        /\ pout.err = "none"
        /\ pout.res = IF pin.zoom < Len(resolutions) THEN resolutions[pin.zoom + 1]
                      ELSE resolutions[Len(resolutions)]

\* C24 as claimed: when the workers of a cycle neither suppressed nor stopped
\* have all run to the end of their parts, the counter of completed tiles
\* equals the total, the number of columns times the number of rows, whatever
\* the order of the reads and writes of the workers' increments.
C24_CounterReachesTotal ==
    \A t \in Threads :
        (/\ cyc[t].pc = "reset" /\ ~cyc[t].sup /\ ~cyc[t].stp
         /\ \A w \in Parts : wk[t][w].pc # "crashed")
            => /\ map.nbTiles = Len(map.cols) * Len(map.rows)
               /\ map.cptTiles = map.nbTiles

\* C25: for a point inside the bounding box of the tile matrix, at any zoom
\* level and for an NW as for an SW origin, getTileNumber returns a column and
\* a row that are not negative.
C25_IndicesNotNegative ==
    pout.op = "getTileNumber" =>
        LET tm == TileMatrix(pin.grid) IN
        (/\ tm.xmin <= pin.x /\ pin.x <= tm.xmax
         /\ tm.ymin <= pin.y /\ pin.y <= tm.ymax)
            => (pout.number[1] >= 0 /\ pout.number[2] >= 0)

\* the lowest point of an NW grid: the last row, counted from the top
C25_Witness ==
    /\ pout.op = "getTileNumber"
    /\ pin.grid.originLoc = "NW"
    /\ pin.zoom = 2
    /\ pin.x = -4 /\ pin.y = -3
    /\ pout.number = <<0, 3>>

\* C26: the TileMatrix constructor puts the origin at (xmin, ymax) for an NW
\* grid and at (xmin, ymin) for an SW grid, and for any other origin it ends
\* with NotImplementedError and gives no matrix.
C26_OriginValidated ==
    pout.op = "TileMatrix" =>
        LET bbox == pin.grid.bbox IN
        CASE pin.grid.originLoc = "NW" ->
                /\ pout.err = "none"
                /\ <<pout.originx, pout.originy>> = <<bbox[1], bbox[4]>>
          [] pin.grid.originLoc = "SW" ->
                /\ pout.err = "none"
                /\ <<pout.originx, pout.originy>> = <<bbox[1], bbox[2]>>
          [] OTHER ->
                /\ pout.err = "NotImplementedError"
                /\ DOMAIN pout = {"op", "err"}

\* a grid whose origin is its north east corner was refused
C26_Witness ==
    /\ pout.op = "TileMatrix"
    /\ pin.grid.originLoc = "NE"
    /\ pin.grid.bbox = <<0, -2, 8, 6>>
    /\ pout.err = "NotImplementedError"

\* C27: the GeoPackage constructor on a path that holds a valid container
\* initialises nothing and leaves every metadata record and every tile row as
\* it was, so the tiles stored before are still returned by getTile; a
\* container that the constructor has newly initialised holds exactly one
\* contents record, one spatial reference record and one tile matrix set record.
C27_PersistsAcrossOpens ==
    [][(opn' # opn /\ now' = now /\ ret'.op = "init") =>
          /\ isGPKG(db) = "True" =>
                /\ ret'.err = "none"
                /\ db' = db
                /\ \A r \in db.tiles :
                      getTile(db', r.tile_column, r.tile_row, r.zoom_level, now)
                          = getTile(db, r.tile_column, r.tile_row, r.zoom_level, now)
          /\ (isGPKG(db) # "True" /\ ret'.err = "none") =>
                /\ isGPKG(db') = "True"
                /\ Cardinality(db'.contents) = 1
                /\ Cardinality(db'.srs) = 1
                /\ Cardinality(db'.tms) = 1]_vars

\* a container opened again after a tile was put in it still holds the tile
C27_Witness ==
    /\ ret.op = "init" /\ ret.err = "none"
    /\ \E r \in db.tiles : r.tile_data = "pngB" /\ r.last_modified < now
    /\ Cardinality(db.contents) = 1

\* C28: a container that the constructor has newly initialised holds exactly
\* one tile matrix record for each level 0 .. nbLevels - 1 of the matrix and
\* none for another level; the record of a level has the grid width
\* ceil((xmax - xmin) / (tileSize * res)) and the grid height
\* ceil((ymax - ymin) / (tileSize * res)), tiles of tileSize by tileSize and
\* the pixel size res, res being the resolution of the level.
C28_TileMatrixRecords ==
    [][(opn' # opn /\ now' = now /\ ret'.op = "init"
            /\ isGPKG(db) # "True" /\ ret'.err = "none") =>
          /\ {r.zoom_level : r \in db'.tm} = 0..(CacheTM.nbLevels - 1)
          /\ Cardinality(db'.tm) = CacheTM.nbLevels
          /\ \A r \in db'.tm :
                LET res == CacheTM.initRes \div Pow(CacheTM.resFactor, r.zoom_level) IN
                /\ r.matrix_width = MatrixWidth(CacheTM, r.zoom_level)
                /\ r.matrix_height = MatrixHeight(CacheTM, r.zoom_level)
                /\ r.matrix_width * CacheTM.tileSize * res >= CacheTM.xmax - CacheTM.xmin
                /\ (r.matrix_width - 1) * CacheTM.tileSize * res < CacheTM.xmax - CacheTM.xmin
                /\ r.tile_width = CacheTM.tileSize /\ r.tile_height = CacheTM.tileSize
                /\ r.pixel_x_size = res /\ r.pixel_y_size = res]_vars

\* the container made where no file was: three levels, the last four tiles wide
C28_Witness ==
    /\ ret.op = "init" /\ ret.err = "none"
    /\ opn = 1 /\ db.tiles = {}
    /\ Cardinality(db.tm) = 3
    /\ \E r \in db.tm : r.zoom_level = 2 /\ r.matrix_width = 4 /\ r.pixel_x_size = 1

\* C29: for the column and row lists of one request, on an NW as on an SW
\* grid, the offsets at which the tiles are pasted are pairwise distinct,
\* multiples of tileSize, and inside the mosaic: 0 <= x <= width - tileSize
\* and 0 <= y <= height - tileSize.
C29_PasteOffsets ==
    pout.op = "offsets" =>
        LET tileSize == pin.grid.tileSize IN
        /\ Len(pout.offsets) = Len(pout.tiles)
        /\ \A i, j \in 1..Len(pout.offsets) :
              pout.offsets[i] = pout.offsets[j] => i = j
        /\ \A i \in 1..Len(pout.offsets) :
              LET x == pout.offsets[i][1]
                  y == pout.offsets[i][2]
              IN  /\ x % tileSize = 0 /\ y % tileSize = 0
                  /\ 0 <= x /\ x <= pout.img_w - tileSize
                  /\ 0 <= y /\ y <= pout.img_h - tileSize

\* three columns and two rows on an SW grid: the last tile, one row down, is
\* pasted at the bottom right of the mosaic
C29_Witness ==
    /\ pout.op = "offsets"
    /\ pin.grid.originLoc = "SW"
    /\ pin.zoom = 2 /\ pin.bbox = <<-1, 1, 2, 2>>
    /\ Len(pout.tiles) = 6
    /\ pout.tiles[6][2] < pout.tiles[1][2]
    /\ pout.offsets[6] = <<4, 2>>

\* C30 as stated: in the url of a WMS source xmin and ymin of the bounding
\* box are the two values of getTileCoords(col, row, zoom), and xmax and ymax
\* are these plus the geographic size of one tile.
C30_CornersAsStated ==
    (pout.op = "buildUrl" /\ pin.src.service = "WMS") =>
        LET tm1 == TileMatrix(pin.src.grid)
            size == tm1.tileSize * getRes(tm1, pin.zoom)
            xmin == getTileCoords(tm1, pin.col, pin.row, pin.zoom)[1]
            ymin == getTileCoords(tm1, pin.col, pin.row, pin.zoom)[2]
            xmax == xmin + size
            ymax == ymin + size
        IN  pout.url.BBOX \in {joinBbox(xmin, ymin, xmax, ymax),
                               joinBbox(ymin, xmin, ymax, xmax)}

\* C30, amended: the two values of getTileCoords(col, row, zoom) are xmin and
\* ymax of the bounding box, the top left corner of the tile on an NW as on
\* an SW grid; xmax is xmin plus the geographic size of one tile and ymin is
\* ymax minus that size.
C30_CornersFromTopLeft ==
    (pout.op = "buildUrl" /\ pin.src.service = "WMS") =>
        LET tm1 == TileMatrix(pin.src.grid)
            size == tm1.tileSize * getRes(tm1, pin.zoom)
            topLeft == getTileCoords(tm1, pin.col, pin.row, pin.zoom)
            xmin == topLeft[1]
            ymax == topLeft[2]
            xmax == topLeft[1] + size
            ymin == topLeft[2] - size
        IN  /\ size > 0
            /\ pout.url.BBOX \in {joinBbox(xmin, ymin, xmax, ymax),
                                  joinBbox(ymin, xmin, ymax, xmax)}

\* tile (1, 1) of zoom 1 asked of a WMS 1.1.1 source on the SW grid
C30_Witness ==
    /\ pout.op = "buildUrl"
    /\ pin.src.service = "WMS" /\ pin.src.VERSION = "1.1.1"
    /\ pin.src.grid = GridSW
    /\ pin.col = 1 /\ pin.row = 1 /\ pin.zoom = 1
    /\ getTileCoords(TileMatrix(GridSW), 1, 1, 1) = <<0, 4>>
    /\ pout.url.BBOX = "0,0,4,4"

-----------------------------------------------------------------------------
(* Claims about suppression, the stored key, progress and the zoom range *)

\* C31 as claimed: whenever request() has suppressed a cycle, a mosaic for
\* the same column list, row list and zoom level has been saved and placed by
\* an earlier cycle.
C31_SuppressedHasMosaic ==
    \A t \in Threads :
        (cyc[t].sup /\ cyc[t].pc = "mosaic") =>
            /\ saved.by # t /\ saved # NoSave
            /\ saved.cols = map.cols /\ saved.rows = map.rows
            /\ saved.zoom = map.zoom

\* C32 as claimed: when getTile(layKey, col, row, zoom) has downloaded bytes
\* that pass the image sniff, the putTile it performs writes the row of the
\* key (zoom, col, row) of that call and no other row.
C32_StoredUnderOwnKey ==
    [][\A t \in Threads, w \in Parts :
          (wk[t][w].pc = "fetch" /\ wk'[t][w].pc # "fetch" /\ wk'[t][w].put) =>
              LET tile == wk[t][w].part[wk[t][w].i] IN
              /\ TileRows(db', tile[1], tile[2], wk[t][w].z) # {}
              /\ \A x \in -1..MaxCol, y \in -1..MaxCol, z \in 0..MaxResZoom :
                    <<x, y, z>> # <<tile[1], tile[2], wk[t][w].z>> =>
                        TileRows(db', x, y, z) = TileRows(db, x, y, z)]_vars

\* C33 as claimed: every pair (completed, total) that progress() returns,
\* whatever the cycle thread and its workers have done when it is called,
\* has 0 <= completed <= total.
C33_ProgressConsistent ==
    (ret.op = "progress" /\ ret.err = "none") =>
        (0 <= ret.nb /\ ret.nb <= ret.nbTotal)

\* C34 as claimed: in every state after the MapImage is built and get() has
\* started the first cycle thread, progress() returns a pair and does not fail.
C34_ProgressAnswers ==
    ret.op = "progress" => ret.err = "none"

\* worker w of cycle t is inside a call of getTile, not yet past its bounds
\* test, for a tile that the test rejects at the zoom of the call
RejectedCall(t, w) ==
    LET wr == wk[t][w] IN
    /\ \/ wr.pc \in {"isgpkg", "create"}
       \/ wr.pc = "check" /\ map.running
    /\ ~InBounds(EngineTM, wr.part[wr.i][1], wr.part[wr.i][2],
                 IF wr.pc = "check" THEN map.zoom ELSE wr.z)

\* C35 as claimed: for a tile with a negative column or row, or with its top
\* left corner outside the bounding box of the matrix, getTile returns None
\* and has read nothing from the cache, asked nothing of the network and
\* written nothing to the cache.
C35_RejectedTouchesNothing ==
    [][\A t \in Threads, w \in Parts :
          (RejectedCall(t, w) /\ wk'[t][w] # wk[t][w]) =>
              /\ db' = db
              /\ cyc'[t].io = cyc[t].io
              /\ wk'[t][w].pc \in {"isgpkg", "create", "paste"}
              /\ wk'[t][w].pc = "paste" => wk'[t][w].data = "None"]_vars

\* C35, amended: getTile first takes the cache of the layer from getCache,
\* which opens the container and creates it where it is missing or not
\* valid, and may fail; past getCache, a tile that the bounds test rejects is
\* answered None with no lookup of a tile row, no request to the network and
\* no putTile: the tile rows of the cache are left as they are.
C35_RejectedNoLookup ==
    [][\A t \in Threads, w \in Parts :
          (RejectedCall(t, w) /\ wk'[t][w] # wk[t][w]) =>
              /\ db'.tiles = db.tiles
              /\ db' # db => (wk[t][w].pc = "create" /\ db' = initContainer(db, EngineTM).db)
              /\ cyc'[t].io = cyc[t].io
              /\ wk'[t][w].pc \in {"isgpkg", "create", "paste", "crashed"}
              /\ wk'[t][w].pc = "crashed" => wk[t][w].pc \in {"isgpkg", "create"}
              /\ wk'[t][w].pc = "paste" =>
                    (wk'[t][w].data = "None" /\ ~wk'[t][w].put)]_vars

\* a worker has opened the cache by creating the container and is about to
\* paste the white tile for a tile in a negative row, its cycle having read,
\* fetched and stored nothing
C35_Witness ==
    \E t \in Threads, w \in Parts :
        /\ wk[t][w].pc = "paste"
        /\ wk[t][w].part[wk[t][w].i][2] < 0
        /\ ~InBounds(EngineTM, wk[t][w].part[wk[t][w].i][1],
                     wk[t][w].part[wk[t][w].i][2], wk[t][w].z)
        /\ wk[t][w].data = "None"
        /\ cyc[t].io = {}
        /\ db = FreshDb

\* C36: when MapService.getTile finds for the key a row that is stale or
\* fails the image sniff, and the download then fails or gives bytes that
\* fail the sniff, the call returns None and the container is as it was: the
\* row of the key keeps its bytes and its timestamp, and so does every other
\* row.
C36_FailedRefreshKeepsRow ==
    [][(/\ opn' # opn /\ now' = now /\ ret'.op = "MapService.getTile"
        /\ ret'.net /\ ret'.data = "None") =>
          /\ ~ret'.put
          /\ db'.tiles = db.tiles
          /\ db' = db
          /\ TileRows(db', ret'.key[1], ret'.key[2], ret'.key[3]) = ret'.rows]_vars

\* a row of bytes pngA more than MAX_DAYS days old is still there, bytes and
\* timestamp, after a download that failed
C36_Witness ==
    /\ ret.op = "MapService.getTile"
    /\ ret.net /\ ~ret.put /\ ret.data = "None"
    /\ \E r \in ret.rows :
          /\ r.tile_data = "pngA"
          /\ Days(ret.at - r.last_modified) > MAX_DAYS
          /\ LastKeyRows = {r}

\* every thread that get() has started has run run_multi to its end, no call
\* of stop() or get() is waiting in join(), and the counters of progress are
\* as the last statement of run_multi leaves them
Quiet ==
    /\ \A t \in Threads : ~Alive(t)
    /\ host.pc = "idle"
    /\ map.hasCpt => (map.nbTiles = 0 /\ map.cptTiles = 0)

\* C37: under fair scheduling, with every request to the network returning or
\* timing out, every thread that get() starts runs run_multi to its end, its
\* workers having all ended, and leaves the progress counters at (0, 0), and
\* every call of stop() returns: whatever the user does, from some point on
\* no cycle thread is alive and no call is waiting in join().
C37_CyclesTerminate == <>[]Quiet

\* two cycles have been started and have run to their end, the second has
\* saved its mosaic, and the counters are back at (0, 0)
C37_Witness ==
    /\ cyc[1].pc = "done" /\ cyc[2].pc = "done"
    /\ host.pc = "idle" /\ host.n = 2
    /\ saved.by = 2
    /\ map.hasCpt /\ map.nbTiles = 0 /\ map.cptTiles = 0

\* C38 as claimed: whatever zoom the scene holds when the viewer is opened
\* and whatever the wheel does, the zoom level of every cycle that get()
\* starts, as update() reads it from the scene, lies in [zmin, zmax] of the
\* layer.
C38_ZoomInLayerRange ==
    \A t \in Threads :
        cyc[t].pc \in {"mosaic", "launch", "join", "reset"} =>
            (Layer.zmin <= map.zoom /\ map.zoom <= Layer.zmax)

====
